---- MODULE Spec2Model ----
(***************************************************************************)
(* Model of the mewt_quick_model detection engine: the LRU trust cache,    *)
(* the context manager's one-second window, the engine's debounced state   *)
(* machine, the rate-limited VLM channel with its result lock, the         *)
(* observer manager and the window processor of MewtCore.                  *)
(*                                                                         *)
(* Times are milliseconds, as returned by Date.now().  Confidences are     *)
(* percentages (0.3 is 30), so that the strict comparisons of the code     *)
(* keep their meaning on integers.                                         *)
(***************************************************************************)
EXTENDS Integers, Sequences, FiniteSets, TLC

VARIABLES
    \* ---- a stand-alone LRUCache instance and the record of its use
    cache,          \* LRUCache.cache: the Map, as the sequence of its entries in insertion order
    lastTouch,      \* for every key, the number of the last set/get that touched it (0: never)
    opCount,        \* number of set/get operations done so far
    cacheOp,        \* the last operation on the cache, with the cache as it was before it
    \* ---- the clock
    now,            \* Date.now()
    \* ---- ContextManager (the engine's Mewt instance)
    current_image,  \* context.current.current_image: Map class -> max score, in insertion order
    current_audio,  \* context.current.current_audio
    image_lru,      \* context.image_lru: LRUCache(20)
    is_now_focusing_cat, \* context.is_now_focusing_cat
    lastWindow,     \* time the window timer last ran processWindow (its start, before the first run)
    flushInfo,      \* what the processWindow runs so far have flushed
    \* ---- WindowProcessor (the window of MewtCore) with its state manager and LRU cache
    currentImageMap, \* currentWindow.currentImageMap: Map class -> max score
    currentAudioMap, \* currentWindow.currentAudioMap
    wpProcessing,   \* WindowProcessor.isProcessing
    lruCache,       \* the LRUCache handed to the WindowProcessor
    totalWindows,   \* timing.totalWindows
    stats,          \* stats: totalImageDataAdded, totalAudioDataAdded, totalWindowsProcessed, lastWindowSize
    frames,         \* number of processWindow calls that passed the guard and have not returned
    added,          \* every detection list added so far: source, items, window, whether a flush was running
    flushes,        \* every flush so far: the maps it analysed, its response and the cache afterwards
    wpOp,           \* the last call on the WindowProcessor, with the state before it
    \* ---- AudioTrigger and the emotion rule engine
    featureCache,   \* AudioTrigger.featureCache: Map hash -> features, in insertion order
    audioStats,     \* AudioTrigger.stats
    audioOp,        \* the last classifyEmotion / processAudioResult call, with the state before it
    \* ---- MewtEngine
    state,          \* engine.state: stable, pending, lastStable, changeTime
    lastResponse,   \* engine.lastResponse
    events,         \* the TransitionEvents handed to StateChangeObserverManager.notify, in order
    upd,            \* the last updateState: what it computed and what it did
    heldRaw,        \* the raw state seen by the last updateState ("none" before the first)
    heldSince,      \* time of the first updateState of the current run of equal raw states
    everHeld,       \* some updateState so far saw its raw state held for the debounce interval
    nInputs,        \* number of classifier results with at least one category handled so far
    deepMewtEnabled, \* engine.deepMewtEnabled
    windowTimer,    \* engine.mewt.windowTimer: the interval timer of the ContextManager is running
    wpWindowTimer,  \* engine.windowProcessor.windowTimer: its interval timer is running
    handlers,       \* rnReceiver.handlers: the message types whose handler calls this engine
    destroyedAt,    \* the number of events emitted before each destroy() call so far
    lifeOp,         \* the last destroy() or RN message, with what it left behind
    \* ---- StateChangeObserverManager
    observers,      \* manager.observers: the registered observers, in list order
    priority,       \* the priority property of every observer object (0 when never set)
    notified,       \* the last notify(event): which observers ran, which failures were caught
    obsOps,         \* number of addObserver / removeObserver calls after construction
    \* ---- VLMChannel and its RateLimiter
    enabled,        \* VLMChannel.enabled
    minIntervalMs,  \* RateLimiter.minIntervalMs, from the channel's config
    isProcessing,   \* VLMChannel.isProcessing
    lastCallTime,   \* RateLimiter.lastCallTime
    callsInLastMinute, \* RateLimiter.callsInLastMinute
    lock,           \* VLMChannel.lock
    inFlight,       \* the callAPI calls started and not yet settled (their start times)
    starts,         \* the start times of every call let through to callAPI, in order
    attempt,        \* the last analyze attempt: when, in which channel state, and its outcome
    settled,        \* the last settlement of a callAPI: when and how it ended
    lockSet,        \* the last setLock / unlock: when and with which arguments
    lockRead,       \* the last getText / getLockData pair since then: when and what they returned
    triggerOp       \* the last dispatch the VLMTriggerObserver took part in, with the attempt before it

cacheVars  == <<cache, lastTouch, opCount, cacheOp>>
wpVars     == <<currentImageMap, currentAudioMap, wpProcessing, lruCache, totalWindows, stats,
                frames, added, flushes, wpOp>>
audVars    == <<featureCache, audioStats, audioOp>>
ctxVars    == <<current_image, current_audio, image_lru, is_now_focusing_cat, lastWindow,
                flushInfo, wpVars, audVars>>
obsVars    == <<observers, priority, notified, obsOps>>
lifeVars   == <<deepMewtEnabled, windowTimer, wpWindowTimer, handlers, destroyedAt, lifeOp>>
engineVars == <<state, lastResponse, events, upd, heldRaw, heldSince, everHeld, nInputs,
                obsVars, lifeVars>>
vlmVars    == <<enabled, minIntervalMs, isProcessing, lastCallTime, callsInLastMinute, lock, inFlight,
                starts, attempt, settled, lockSet, lockRead, triggerOp>>
vars       == <<cacheVars, now, ctxVars, engineVars, vlmVars>>

Max(a, b) == IF a >= b THEN a ELSE b
Min(a, b) == IF a <= b THEN a ELSE b

(***************************************************************************)
(* LRUCache: a Map whose iteration order is insertion order.               *)
(***************************************************************************)

\* Map.has(key)
LRUHas(c, key) == \E i \in 1..Len(c) : c[i].key = key

\* position of a present key in the Map
MapIndex(c, key) == CHOOSE i \in 1..Len(c) : c[i].key = key

\* Map.get(key) of a present key
MapGet(c, key) == c[MapIndex(c, key)].value

\* Map.delete(key): a no-op for an absent key
MapDelete(c, key) == SelectSeq(c, LAMBDA e : e.key # key)

\* Map.set(key, value): a present key keeps its position, a new key goes last
MapSet(c, key, value) ==
    IF LRUHas(c, key)
    THEN [c EXCEPT ![MapIndex(c, key)] = [key |-> key, value |-> value]]
    ELSE Append(c, [key |-> key, value |-> value])

MapKeys(c) == {c[i].key : i \in 1..Len(c)}

\* a get that forgets to re-insert the entry at the end
LRUGetNoPromote(c, key) == c

\* LRUCache.get(key): the cache afterwards
LRUGet(c, key) ==
    IF ~LRUHas(c, key) THEN c
    ELSE LET value == MapGet(c, key)
         IN  MapSet(MapDelete(c, key), key, value)

\* a set that evicts the newest entry instead of the oldest
LRUSetEvictNewest(c, maxSize, key, value) ==
    LET c1 == IF LRUHas(c, key) THEN MapDelete(c, key)
              ELSE IF Len(c) >= maxSize /\ Len(c) > 0 THEN SubSeq(c, 1, Len(c) - 1)
              ELSE c
    IN  MapSet(c1, key, value)

\* LRUCache.set(key, value): the cache afterwards
LRUSet(c, maxSize, key, value) ==
    LET c1 == IF LRUHas(c, key) THEN MapDelete(c, key)
              ELSE IF Len(c) >= maxSize
                   THEN (IF Len(c) > 0 THEN MapDelete(c, c[1].key) ELSE c)
              ELSE c
    IN  MapSet(c1, key, value)

\* Array.prototype.slice(start) with one argument
SliceFrom(values, start) ==
    LET n    == Len(values)
        from == IF start < 0 THEN Max(n + start, 0) ELSE Min(start, n)
    IN  [i \in 1..(n - from) |-> values[from + i]]

\* LRUCache.recent(count): Array.from(cache.values()).slice(-count)
LRURecent(c, count) ==
    SliceFrom([i \in 1..Len(c) |-> c[i].value], 0 - count)

(***************************************************************************)
(* A stand-alone LRUCache driven by arbitrary set / get / recent calls.    *)
(***************************************************************************)

CacheMaxSize == 3      \* maxSize of the stand-alone cache
MaxOps == 5            \* number of set/get calls explored
CacheKeys == {"k1", "k2", "k3", "k4"}
CacheValues == {"a", "b"}
RecentCounts == 0..(CacheMaxSize + 1)

NoOp == [kind |-> "none", key |-> "k1", count |-> 0, hit |-> FALSE,
         before |-> <<>>, touchBefore |-> [k \in CacheKeys |-> [n |-> 0, v |-> "a"]],
         result |-> <<>>]

CacheInit ==
    /\ cache = <<>>
    /\ lastTouch = [k \in CacheKeys |-> [n |-> 0, v |-> "a"]]
    /\ opCount = 0
    /\ cacheOp = NoOp

CacheSet(key, value) ==
    /\ opCount < MaxOps
    /\ cache' = LRUSet(cache, CacheMaxSize, key, value)
    /\ opCount' = opCount + 1
    /\ lastTouch' = [lastTouch EXCEPT ![key] = [n |-> opCount + 1, v |-> value]]
    /\ cacheOp' = [kind |-> "set", key |-> key, count |-> 0, hit |-> LRUHas(cache, key),
                   before |-> cache, touchBefore |-> lastTouch, result |-> <<>>]

CacheGet(key) ==
    /\ opCount < MaxOps
    /\ cache' = LRUGet(cache, key)
    /\ opCount' = opCount + 1
    /\ lastTouch' = IF LRUHas(cache, key)
                    THEN [lastTouch EXCEPT ![key].n = opCount + 1]
                    ELSE lastTouch
    /\ cacheOp' = [kind |-> "get", key |-> key, count |-> 0, hit |-> LRUHas(cache, key),
                   before |-> cache, touchBefore |-> lastTouch,
                   result |-> IF LRUHas(cache, key) THEN <<MapGet(cache, key)>> ELSE <<>>]

CacheRecent(count) ==
    /\ cacheOp' = [kind |-> "recent", key |-> "k1", count |-> count, hit |-> FALSE,
                   before |-> cache, touchBefore |-> lastTouch,
                   result |-> LRURecent(cache, count)]
    /\ UNCHANGED <<cache, lastTouch, opCount>>
CacheIdle == cache = <<>> /\ lastTouch = NoOp.touchBefore /\ opCount = 0 /\ cacheOp = NoOp

(***************************************************************************)
(* ContextManager: the window maps, the four-state classification and the  *)
(* trust cache written at every processWindow.                             *)
(***************************************************************************)

CAT_DETECTION_THRESHOLD == 30
CAT_SOUND_THRESHOLD == 20
WINDOW_INTERVAL == 1000
LRU_TRUST_COUNT == 10
IMAGE_LRU_SIZE == 20

\* className.toLowerCase().includes('cat'), on the class names of the model
CatNames == {"cat", "Tabby_Cat"}
IncludesCat(className) == className \in CatNames

\* className.toLowerCase().includes('meow')
MeowNames == {"meow"}
IncludesMeow(className) == className \in MeowNames

\* an add that keeps the last score of a class instead of the highest
AddResultLast(map, item) == MapSet(map, item.class, item.score)

\* one forEach step of addImageResult / addAudioResult: keep the highest score of a class
AddResult(map, item) ==
    IF ~LRUHas(map, item.class) \/ MapGet(map, item.class) < item.score
    THEN MapSet(map, item.class, item.score)
    ELSE map

\* ContextManager.addImageResult / addAudioResult (the Map part): classResults.forEach
RECURSIVE AddResults(_, _)
AddResults(map, classResults) ==
    IF classResults = <<>> THEN map
    ELSE AddResults(AddResult(map, Head(classResults)), Tail(classResults))

\* hasVisualCat that forgets the threshold
HasVisualCatNoThreshold(map) ==
    \E i \in 1..Len(map) : IncludesCat(map[i].key)

\* ContextManager.hasVisualCat
HasVisualCat(map) ==
    \E i \in 1..Len(map) :
        IncludesCat(map[i].key) /\ map[i].value > CAT_DETECTION_THRESHOLD

\* ContextManager.hasCatSound
HasCatSound(map) ==
    \E i \in 1..Len(map) :
        /\ IncludesCat(map[i].key) \/ IncludesMeow(map[i].key)
        /\ map[i].value > CAT_SOUND_THRESHOLD

\* a determineState that lets the audio branch win over both
DetermineStateAudioFirst(hasVisual, hasAudio) ==
    IF hasAudio THEN "cat_audio"
    ELSE IF hasVisual THEN "cat_visual"
    ELSE "idle"

\* ContextManager.determineState
DetermineState(hasVisual, hasAudio) ==
    IF hasVisual /\ hasAudio THEN "cat_both"
    ELSE IF hasVisual THEN "cat_visual"
    ELSE IF hasAudio THEN "cat_audio"
    ELSE "idle"

\* the value updateImageLRU stores for one class of the window
TrustEntry(className, score, t) ==
    [class |-> className, score |-> score, timestamp |-> t, isCat |-> IncludesCat(className)]

\* an updateImageLRU that writes nothing
UpdateImageLRUSkip(lru, map, t) == lru

\* ContextManager.updateImageLRU: one set per class of the window, in Map order
RECURSIVE UpdateImageLRU(_, _, _)
UpdateImageLRU(lru, map, t) ==
    IF map = <<>> THEN lru
    ELSE UpdateImageLRU(
             LRUSet(lru, IMAGE_LRU_SIZE, <<Head(map).key, t>>,
                    TrustEntry(Head(map).key, Head(map).value, t)),
             Tail(map), t)

\* recent(n).filter(item => item.isCat).length > 0
TrustsCat(lru, n) ==
    LET recent == LRURecent(lru, n)
    IN  \E i \in 1..Len(recent) : recent[i].isCat

\* ContextManager.calculateTrustBasedFocus
CalculateTrustBasedFocus(lru, currentState) ==
    IF currentState = "idle" THEN TrustsCat(lru, LRU_TRUST_COUNT) ELSE TRUE
(***************************************************************************)
(* VLMChannel result lock (read by the engine's updateState).              *)
(***************************************************************************)

NoText == ""     \* null, and every other falsy text

NoLock == [text |-> NoText, until |-> 0, data |-> "none"]

\* a getText that forgets the expiry
GetTextForever(lk, t) == lk.text

\* VLMChannel.getText
GetText(lk, t) == IF lk.until > t /\ lk.text # NoText THEN lk.text ELSE NoText

\* the value null as a caller of getText / getLockData sees it
Null == "<null>"

\* getText as its caller sees it: a truthy text or null
ReadText(lk, t) == IF GetText(lk, t) # NoText THEN GetText(lk, t) ELSE Null

\* a lock still counted as held at the instant of its expiry
IsLockedInclusive(lk, t) == lk.until >= t

\* VLMChannel.isLocked
IsLocked(lk, t) == lk.until > t

\* VLMChannel.getLockData
GetLockData(lk, t) == IF IsLocked(lk, t) THEN lk.data ELSE Null

\* VLMChannel.setLock(text, data, durationMs)
SetLockFor(text, data, durationMs, t) == [text |-> text, until |-> t + durationMs, data |-> data]

NoLockSet == [kind |-> "none", time |-> 0, ttl |-> 0, text |-> NoText, data |-> "none"]
NoLockRead == [kind |-> "none", time |-> 0, text |-> Null, data |-> Null]

\* a call of setLock
DoSetLock(text, data, durationMs) ==
    /\ lock' = SetLockFor(text, data, durationMs, now)
    /\ lockSet' = [kind |-> "set", time |-> now, ttl |-> durationMs, text |-> text,
                   data |-> data]
    /\ lockRead' = NoLockRead

\* VLMChannel.unlock
Unlock ==
    /\ lock' = NoLock
    /\ lockSet' = [NoLockSet EXCEPT !.kind = "unlock", !.time = now]
    /\ lockRead' = NoLockRead

\* a caller reads getText() and getLockData()
ReadLock ==
    /\ lockRead' = [kind |-> "read", time |-> now, text |-> ReadText(lock, now),
                    data |-> GetLockData(lock, now)]
    /\ UNCHANGED <<lock, lockSet>>

(***************************************************************************)
(* RateLimiter and VLMChannel.analyze.  analyze runs synchronously up to   *)
(* its await of callAPI (Analyze) and resumes when callAPI settles         *)
(* (Settle); other code may run in between.                                *)
(***************************************************************************)

DefaultMinInterval == 15000
maxPerMinute == 3
MINUTE_MS == 60000
LOCK_DURATION_MS == 30000

\* a limiter without the minimum-interval test
TooSoonNever(t, last, minInterval) == FALSE

\* canCall: now - lastCallTime < minIntervalMs
TooSoon(t, last, minInterval) == t - last < minInterval

\* canCall: the records kept by the filter now - t < 60000
CallsInLastMinute(calls, t) == SelectSeq(calls, LAMBDA c : t - c < MINUTE_MS)

\* a limiter without the per-minute test
OverLimitNever(calls) == FALSE

\* canCall: callsInLastMinute.length >= maxPerMinute
OverLimit(calls) == Len(calls) >= maxPerMinute

\* a limiter that never refuses
CanCallAlways(t, last, calls, minInterval) == [ok |-> TRUE, calls |-> calls]

\* RateLimiter.canCall: its result and the record list it leaves behind
CanCall(t, last, calls, minInterval) ==
    IF TooSoon(t, last, minInterval)
    THEN [ok |-> FALSE, calls |-> calls]
    ELSE LET kept == CallsInLastMinute(calls, t)
         IN  [ok |-> ~OverLimit(kept), calls |-> kept]

\* an analyze that does not look at isProcessing
BusyIgnored(processing) == FALSE

\* analyze: if (this.isProcessing) return null
Busy(processing) == processing

NoAttempt == [kind |-> "none", time |-> 0, inFlightBefore |-> <<>>, startsBefore |-> <<>>,
              free |-> FALSE, returned |-> "none"]

\* the channel is enabled, no call is in flight and the limiter's records allow a call at t
ChannelFree(t) ==
    /\ enabled
    /\ inFlight = <<>>
    /\ t - lastCallTime >= minIntervalMs
    /\ Cardinality({i \in 1..Len(callsInLastMinute) : t - callsInLastMinute[i] < MINUTE_MS})
          < maxPerMinute

\* analyze(data) up to its first await
Analyze ==
    LET limiter == CanCall(now, lastCallTime, callsInLastMinute, minIntervalMs)
        seen    == [kind |-> "analyze", time |-> now, inFlightBefore |-> inFlight,
                    startsBefore |-> starts, free |-> ChannelFree(now),
                    returned |-> "null"]
    IN  IF ~enabled \/ Busy(isProcessing)
        THEN /\ attempt' = seen
             /\ UNCHANGED <<isProcessing, callsInLastMinute, inFlight, starts>>
        ELSE IF ~limiter.ok
        THEN /\ attempt' = seen
             /\ callsInLastMinute' = limiter.calls
             /\ UNCHANGED <<isProcessing, inFlight, starts>>
        ELSE /\ attempt' = [seen EXCEPT !.returned = "pending"]
             /\ callsInLastMinute' = limiter.calls
             /\ isProcessing' = TRUE
             /\ inFlight' = Append(inFlight, now)
             /\ starts' = Append(starts, now)

\* a recordCall that puts the timestamp in front of the list
RecordCallFirst(calls, t) == <<t>> \o calls

\* RateLimiter.recordCall
RecordCall(calls, t) == Append(calls, t)

\* VLMChannel.setLock with its default duration
SetLock(text, data, t) == [text |-> text, until |-> t + LOCK_DURATION_MS, data |-> data]

\* the texts callAPI resolves with: the model's answer or the fallback of its catch
ResultTexts == {"VLM_ANSWER", "VLM_FALLBACK"}

\* callVisionAPI: the text returned from its catch block, i.e. when fetch rejects, the
\* status is not OK or the response says success: false
FALLBACK_TEXT == "VLM_FALLBACK"

\* the ways the awaited callAPI can end: a truthy result, a falsy one, a rejection
Outcomes == {"result", "falsy", "throws"}

NoSettlement == [outcome |-> "none", time |-> 0, text |-> NoText]

\* an analyze whose guard is cleared on the success path only
GuardKeptOnFailure(outcome) == outcome # "result"

\* analyze: isProcessing after its finally block
GuardAfter(outcome) == FALSE

\* callAPI resolves with a result (text, data) and analyze runs to its end
Settle(text) ==
    /\ inFlight # <<>>
    /\ inFlight' = Tail(inFlight)
    /\ lastCallTime' = now
    /\ callsInLastMinute' = RecordCall(callsInLastMinute, now)
    /\ lock' = SetLock(text, "data", now)
    /\ lockSet' = [kind |-> "set", time |-> now, ttl |-> LOCK_DURATION_MS, text |-> text,
                   data |-> "data"]
    /\ lockRead' = NoLockRead
    /\ isProcessing' = GuardAfter("result")
    /\ settled' = [outcome |-> "result", time |-> now, text |-> text]
    /\ UNCHANGED <<starts, attempt, triggerOp>>

\* callAPI resolves with a falsy value or rejects: nothing is recorded or locked
SettleWithout(outcome) ==
    /\ inFlight # <<>>
    /\ inFlight' = Tail(inFlight)
    /\ isProcessing' = GuardAfter(outcome)
    /\ settled' = [outcome |-> outcome, time |-> now, text |-> NoText]
    /\ UNCHANGED <<lastCallTime, callsInLastMinute, lock, starts, attempt, lockSet, lockRead,
                   triggerOp>>

\* VLMChannel.setEnabled
SetEnabled(value) == enabled' = value

(***************************************************************************)
(* MewtEngine: updateState with the trust override and the debounce.       *)
(***************************************************************************)

STATE_DEBOUNCE_MS == 2000

StateValues == {"idle", "cat_visual", "cat_audio", "cat_both"}

\* STATE_MESSAGES of messages-config: cat_audio has no text of its own
STATE_MESSAGES ==
    [s \in StateValues |->
        IF s = "idle" THEN "MSG_OBSERVING"
        ELSE IF s = "cat_audio" THEN NoText
        ELSE "MSG_CAT_THERE"]

\* updateState: mewt.hasVisualCat() or, failing that, an isCat entry in recent(10)
EngineHasVisual(imageMap, lru) ==
    IF HasVisualCat(imageMap) THEN TRUE ELSE TrustsCat(lru, LRU_TRUST_COUNT)

\* a pending update that keeps the old changeTime
DebouncePendingKeepTime(st, rawState, t) ==
    IF rawState # st.pending THEN [st EXCEPT !.pending = rawState] ELSE st

\* updateState: a raw state different from pending restarts the debounce
DebouncePending(st, rawState, t) ==
    IF rawState # st.pending
    THEN [st EXCEPT !.pending = rawState, !.changeTime = t]
    ELSE st

\* a debounce test that needs more than the interval
DebounceElapsedStrict(t, changeTime) == t - changeTime > STATE_DEBOUNCE_MS

\* updateState: now - changeTime >= STATE_DEBOUNCE_MS
DebounceElapsed(t, changeTime) == t - changeTime >= STATE_DEBOUNCE_MS

\* a notification that does not record the state it announced
AfterNotifyForget(st) == st

\* updateState: this.state.lastStable = this.state.stable, after the observers ran
AfterNotify(st) == [st EXCEPT !.lastStable = st.stable]

\* _notifyStateChange: the event handed to StateChangeObserverManager.notify
TransitionEvent(newState, oldState, t, hasVisual, hasAudio, vlmText, isFocusing) ==
    [newState |-> newState, oldState |-> oldState, timestamp |-> t, vlmText |-> vlmText,
     hasVisual |-> hasVisual, hasAudio |-> hasAudio, isFocusing |-> isFocusing]

NoUpdate == [kind |-> "none", time |-> 0, window |-> 0, raw |-> "idle", hasVisual |-> FALSE,
             hasAudio |-> FALSE, stableBefore |-> "idle", emitted |-> <<>>,
             text |-> NoText, lockSetAt |-> NoLockSet]

\* MewtEngine.updateState, run on the window maps as the caller left them
UpdateState(imageMap, audioMap) ==
    LET hasVisual == EngineHasVisual(imageMap, image_lru)
        hasAudio  == HasCatSound(audioMap)
        rawState  == DetermineState(hasVisual, hasAudio)
        s1        == DebouncePending(state, rawState, now)
        elapsed   == DebounceElapsed(now, s1.changeTime)
        s2        == IF elapsed THEN [s1 EXCEPT !.stable = s1.pending] ELSE s1
        emit      == elapsed /\ s2.stable # s2.lastStable
        ev        == TransitionEvent(s2.stable, s2.lastStable, now, hasVisual, hasAudio,
                                     GetText(lock, now), is_now_focusing_cat)
        s3        == IF emit THEN AfterNotify(s2) ELSE s2
        vlmText   == GetText(lock, now)
        finalText == IF vlmText # NoText THEN vlmText ELSE STATE_MESSAGES[s3.stable]
        since     == IF rawState = heldRaw THEN heldSince ELSE now
    IN  /\ state' = s3
        /\ events' = IF emit THEN Append(events, ev) ELSE events
        /\ lastResponse' = IF finalText # NoText /\ finalText # lastResponse
                           THEN finalText ELSE lastResponse
        /\ upd' = [kind |-> "update", time |-> now, window |-> flushInfo.count,
                   raw |-> rawState,
                   hasVisual |-> hasVisual, hasAudio |-> hasAudio,
                   stableBefore |-> state.stable,
                   emitted |-> IF emit THEN <<ev>> ELSE <<>>,
                   text |-> finalText, lockSetAt |-> lockSet]
        /\ heldRaw' = rawState
        /\ heldSince' = since
        /\ everHeld' = (everHeld \/ now - since >= STATE_DEBOUNCE_MS)
        /\ UNCHANGED <<obsVars, lifeVars>>

(***************************************************************************)
(* StateChangeObserverManager: the observer list and the dispatch.         *)
(***************************************************************************)

\* the observers of _initializeObservers, and one more that a client may register
DefaultObservers == <<"logger", "rnMessenger", "audioEmotion", "vlmTrigger", "uiNotifier">>
ObserverIds == {DefaultObservers[i] : i \in 1..Len(DefaultObservers)} \cup {"extra"}

\* observers whose notify is an async function: a failure inside it rejects the
\* promise it returned and never throws into the caller
AsyncObservers == {"vlmTrigger"}

\* Array.prototype.sort with (a, b) => (b.priority || 0) - (a.priority || 0): x goes
\* behind the elements already placed whose priority is not lower (the sort is stable)
RECURSIVE InsertByPriority(_, _, _)
InsertByPriority(sorted, x, prio) ==
    IF sorted = <<>> THEN <<x>>
    ELSE IF prio[Head(sorted)] >= prio[x]
         THEN <<Head(sorted)>> \o InsertByPriority(Tail(sorted), x, prio)
         ELSE <<x>> \o sorted

\* an addObserver that leaves the list in registration order
SortNot(list, prio) == list

\* this.observers.sort(...)
RECURSIVE SortByPriority(_, _)
SortByPriority(list, prio) ==
    IF list = <<>> THEN <<>>
    ELSE InsertByPriority(SortByPriority(SubSeq(list, 1, Len(list) - 1), prio),
                          list[Len(list)], prio)

\* addObserver(observer, p): the list afterwards, given the priorities afterwards
AddObserver(list, prio, observer) == SortByPriority(Append(list, observer), prio)

\* removeObserver(observer): the first occurrence is spliced out
RemoveObserver(list, observer) ==
    IF \E i \in 1..Len(list) : list[i] = observer
    THEN LET index == CHOOSE i \in 1..Len(list) :
                         list[i] = observer /\ \A j \in 1..(i - 1) : list[j] # observer
         IN  SubSeq(list, 1, index - 1) \o SubSeq(list, index + 1, Len(list))
    ELSE list

\* the priorities set by _initializeObservers
DefaultPriority ==
    [o \in ObserverIds |->
        IF o = "logger" THEN 100
        ELSE IF o = "rnMessenger" THEN 90
        ELSE IF o = "audioEmotion" THEN 85
        ELSE IF o = "vlmTrigger" THEN 50
        ELSE IF o = "uiNotifier" THEN 10
        ELSE 0]

\* _initializeObservers: five addObserver calls on the empty list
RECURSIVE Registered(_)
Registered(n) ==
    IF n = 0 THEN <<>>
    ELSE AddObserver(Registered(n - 1), DefaultPriority, DefaultObservers[n])

\* how a failing observer's notify ends: it throws or, when it is an async function,
\* the promise it returned is rejected
Failure(observer) == IF observer \in AsyncObservers THEN "rejects" ELSE "throws"

\* notify: what try { observer.notify(event) } catch catches
Caught(outcome) == outcome = "throws"

\* notify(event): forEach over the list with try / catch around every call; outcome[i]
\* is how the notify of the i-th observer ends
Dispatch(list, outcome) ==
    [invoked   |-> list,
     logged    |-> {i \in 1..Len(list) : Caught(outcome[i])},
     failed    |-> {i \in 1..Len(list) : outcome[i] # "returns"},
     unhandled |-> {i \in 1..Len(list) : outcome[i] # "returns" /\ ~Caught(outcome[i])},
     returned  |-> TRUE]

NoNotify == [kind |-> "none", list |-> <<>>, invoked |-> <<>>, logged |-> {}, failed |-> {}, unhandled |-> {},
             returned |-> TRUE]

ObsInit ==
    /\ observers = Registered(Len(DefaultObservers))
    /\ priority = DefaultPriority
    /\ notified = NoNotify
    /\ obsOps = 0

\* StateChangeObserverManager.addObserver(observer, p)
DoAddObserver(observer, p, maxOps) ==
    /\ obsOps < maxOps
    /\ obsOps' = obsOps + 1
    /\ priority' = [priority EXCEPT ![observer] = p]
    /\ observers' = AddObserver(observers, priority', observer)
    /\ UNCHANGED notified

\* StateChangeObserverManager.removeObserver(observer)
DoRemoveObserver(observer, maxOps) ==
    /\ obsOps < maxOps
    /\ obsOps' = obsOps + 1
    /\ observers' = RemoveObserver(observers, observer)
    /\ UNCHANGED <<priority, notified>>

\* StateChangeObserverManager.notify(event), during which at most maxFailures observers fail
DoNotify(maxFailures) ==
    /\ \E failing \in SUBSET (1..Len(observers)) :
          /\ Cardinality(failing) <= maxFailures
          /\ notified' = [kind |-> "notify", list |-> observers] @@
                Dispatch(observers,
                         [i \in 1..Len(observers) |->
                             IF i \in failing THEN Failure(observers[i]) ELSE "returns"])
    /\ UNCHANGED <<observers, priority, obsOps>>

\* VLMTriggerObserver.notify: newState / oldState is cat_visual or cat_both
VisualState(s) == s \in {"cat_visual", "cat_both"}

\* a trigger observer that asks for an analysis at every transition
VlmTriggersAlways(ev) == TRUE

\* VLMTriggerObserver.notify: hasVisual && !hadVisual, or !hasVisual && hadVisual
VlmTriggers(ev) == VisualState(ev.newState) # VisualState(ev.oldState)

NoTrigger == [kind |-> "none", time |-> 0, event |-> <<>>, frame |-> FALSE,
              attemptBefore |-> NoAttempt]

\* a trigger observer that calls analyze whether or not getFrame returned a frame
TriggerWithoutFrame(frame) ==
    /\ triggerOp' = IF upd'.emitted # <<>>
                    THEN [kind |-> "notify", time |-> now, event |-> upd'.emitted,
                          frame |-> frame, attemptBefore |-> attempt]
                    ELSE triggerOp
    /\ IF upd'.emitted # <<>> /\ VlmTriggers(upd'.emitted[1])
       THEN Analyze
       ELSE UNCHANGED <<isProcessing, callsInLastMinute, inFlight, starts, attempt>>

\* the VLMTriggerObserver's part of the dispatch made by this updateState:
\* frame tells whether getCurrentFrame() returns an image
Trigger(frame) ==
    /\ triggerOp' = IF upd'.emitted # <<>>
                    THEN [kind |-> "notify", time |-> now, event |-> upd'.emitted,
                          frame |-> frame, attemptBefore |-> attempt]
                    ELSE triggerOp
    /\ IF upd'.emitted # <<>> /\ VlmTriggers(upd'.emitted[1]) /\ frame
       THEN Analyze
       ELSE UNCHANGED <<isProcessing, callsInLastMinute, inFlight, starts, attempt>>

\* MewtEngine.handleImageResult for classifications[0].categories = categories
\* (the call returns at once, changing nothing, when classifications is empty)
HandleImageResult(categories, maxInputs) ==
    /\ categories # <<>> => nInputs < maxInputs
    /\ nInputs' = IF categories # <<>> THEN nInputs + 1 ELSE nInputs
    /\ current_image' = AddResults(current_image, categories)
    /\ UpdateState(current_image', current_audio)
    /\ UNCHANGED <<current_audio, image_lru, is_now_focusing_cat, lastWindow, flushInfo, wpVars,
                   audVars>>

\* MewtEngine.handleAudioResult for result[0].classifications[0].categories = categories
\* and no raw sample buffer (inputData = null: no emotion analysis is triggered)
HandleAudioResult(categories, maxInputs) ==
    /\ categories # <<>> => nInputs < maxInputs
    /\ nInputs' = IF categories # <<>> THEN nInputs + 1 ELSE nInputs
    /\ current_audio' = AddResults(current_audio, categories)
    /\ UpdateState(current_image, current_audio')
    /\ UNCHANGED <<current_image, image_lru, is_now_focusing_cat, lastWindow, flushInfo, wpVars,
                   audVars>>

\* number of classes of the window written after its last target class above the threshold
RECURSIVE TrailingAfterTarget(_)
TrailingAfterTarget(map) ==
    IF map = <<>> THEN 0
    ELSE LET last == map[Len(map)]
         IN  IF IncludesCat(last.key) /\ last.value > CAT_DETECTION_THRESHOLD THEN 0
             ELSE 1 + TrailingAfterTarget(SubSeq(map, 1, Len(map) - 1))

NoFlush == [count |-> 0, hadTarget |-> FALSE, hadCatName |-> FALSE, size |-> 0,
            lruEmptyBefore |-> TRUE, hasVisualAfter |-> FALSE,
            targetAt |-> 0, trailing |-> 0, emptySince |-> FALSE]

\* ContextManager.processWindow, run by the window timer (setInterval, WINDOW_INTERVAL)
ProcessWindow ==
    /\ now - lastWindow >= WINDOW_INTERVAL
    /\ LET lru          == UpdateImageLRU(image_lru, current_image, now)
           currentState == DetermineState(HasVisualCat(current_image),
                                          HasCatSound(current_audio))
           target       == HasVisualCat(current_image)
       IN  /\ image_lru' = lru
           /\ is_now_focusing_cat' = CalculateTrustBasedFocus(lru, currentState)
           /\ flushInfo' =
                 [count |-> flushInfo.count + 1,
                  hadTarget |-> target,
                  hadCatName |-> HasVisualCatNoThreshold(current_image),
                  size |-> Len(current_image),
                  lruEmptyBefore |-> (image_lru = <<>>),
                  hasVisualAfter |-> EngineHasVisual(<<>>, lru),
                  targetAt |-> IF target THEN flushInfo.count + 1 ELSE flushInfo.targetAt,
                  trailing |-> IF target THEN TrailingAfterTarget(current_image)
                               ELSE flushInfo.trailing,
                  emptySince |-> IF target THEN TRUE
                                 ELSE flushInfo.emptySince /\ current_image = <<>>]
    /\ current_image' = <<>>
    /\ current_audio' = <<>>
    /\ lastWindow' = now
    /\ UNCHANGED <<engineVars, wpVars, audVars>>

(***************************************************************************)
(* WindowProcessor: the window maps of MewtCore.  processWindow analyses   *)
(* and clears them and then calls onWindowProcessed, which runs inside the *)
(* flush and may add detections or call processWindow again.               *)
(***************************************************************************)

LruCacheSize == 20     \* MewtCore: config.lruCacheSize || 20

\* StateManager.isCatClass: the lower-cased name includes one of the cat keywords
IsCatClass(className) == className \in CatNames

\* StateManager.isCatSoundClass
IsCatSoundClass(className) == className \in CatNames \cup MeowNames

\* StateManager.hasVisualCat(currentImageMap)
StateHasVisualCat(map) ==
    \E i \in 1..Len(map) : IsCatClass(map[i].key) /\ map[i].value > CAT_DETECTION_THRESHOLD

\* StateManager.hasCatSound(currentAudioMap)
StateHasCatSound(map) ==
    \E i \in 1..Len(map) : IsCatSoundClass(map[i].key) /\ map[i].value > CAT_SOUND_THRESHOLD

\* StateManager.analyzeCurrentState
AnalyzeCurrentState(imageMap, audioMap) ==
    DetermineState(StateHasVisualCat(imageMap), StateHasCatSound(audioMap))

\* an updateLRUCache that writes the first class of the window only
UpdateLRUCacheFirst(lru, map, t) ==
    IF map = <<>> THEN lru
    ELSE LRUSet(lru, LruCacheSize, <<Head(map).key, t>>,
                [class |-> Head(map).key, score |-> Head(map).value, timestamp |-> t,
                 isCat |-> Head(map).key \in CatNames])

\* an updateLRUCache that also leaves an entry for the window itself
UpdateLRUCacheMarked(lru, map, t) ==
    LRUSet(lru, LruCacheSize, <<"window", t>>,
           [class |-> "window", score |-> 0, timestamp |-> t, isCat |-> FALSE])

\* WindowProcessor.updateLRUCache: one set per class of the image map, in Map order
RECURSIVE UpdateLRUCache(_, _, _)
UpdateLRUCache(lru, map, t) ==
    IF map = <<>> THEN lru
    ELSE UpdateLRUCache(
             LRUSet(lru, LruCacheSize, <<Head(map).key, t>>,
                    [class |-> Head(map).key, score |-> Head(map).value, timestamp |-> t,
                     isCat |-> IsCatClass(Head(map).key)]),
             Tail(map), t)

\* WindowProcessor.calculateFocusState
CalculateFocusState(lru, currentState) ==
    IF currentState # "idle" THEN TRUE ELSE TrustsCat(lru, 10)

\* a cleanup that leaves the Map as it is
CleanupKeep(map) == map

\* cleanupWindow: Map.clear()
CleanupWindow(map) == <<>>

\* a guard that never skips
SkipsNever(processing) == FALSE

\* processWindow: if (this.isProcessing) return null
Skips(processing) == processing

\* a class that is not a string: className.toLowerCase() throws a TypeError
NonStrings == {"<7>"}
ThrowsOn(className) == className \in NonStrings

\* hasVisualCat throws: its loop reaches a non-string class before it returns true
VisualThrows(map) ==
    \E i \in 1..Len(map) :
        /\ ThrowsOn(map[i].key)
        /\ \A j \in 1..(i - 1) :
               ~(IsCatClass(map[j].key) /\ map[j].value > CAT_DETECTION_THRESHOLD)

\* hasCatSound throws: its loop reaches a non-string class before it returns true
SoundThrows(map) ==
    \E i \in 1..Len(map) :
        /\ ThrowsOn(map[i].key)
        /\ \A j \in 1..(i - 1) :
               ~(IsCatSoundClass(map[j].key) /\ map[j].value > CAT_SOUND_THRESHOLD)

\* analyzeCurrentState throws
AnalysisThrows(imageMap, audioMap) == VisualThrows(imageMap) \/ SoundThrows(audioMap)

\* updateLRUCache throws: isCatClass is called for every class of the image map
UpdateThrows(imageMap) == \E i \in 1..Len(imageMap) : ThrowsOn(imageMap[i].key)

\* the entries updateLRUCache writes before it throws (all of them when it does not throw)
RECURSIVE BeforeThrow(_)
BeforeThrow(map) ==
    IF map = <<>> \/ ThrowsOn(Head(map).key) THEN <<>>
    ELSE <<Head(map)>> \o BeforeThrow(Tail(map))

\* where an exception raised at a site of processWindow is caught: the callback is called
\* in a try of its own, the analysis in the try of the method
CaughtBy(site) ==
    CASE site = "callback" -> "inner"
      [] site = "analysis" -> "outer"
      [] OTHER -> "none"

Escapes(site) == site # "none" /\ CaughtBy(site) = "none"

\* a flag that is reset at the end of the try block only
ResetInTry(raised) == raised # "none"

\* isProcessing after finally { this.isProcessing = false }
AfterFinally(raised) == FALSE

\* what a call may change: the window maps, the trust cache and the window counters
Snapshot ==
    [image |-> currentImageMap, audio |-> currentAudioMap, cache |-> lruCache,
     totalWindows |-> totalWindows, stats |-> stats]

NoStats == [totalImageDataAdded |-> 0, totalAudioDataAdded |-> 0, totalWindowsProcessed |-> 0,
            lastWindowSize |-> [image |-> 0, audio |-> 0]]

WpInit ==
    /\ currentImageMap = <<>>
    /\ currentAudioMap = <<>>
    /\ wpProcessing = FALSE
    /\ lruCache = <<>>
    /\ totalWindows = 0
    /\ stats = NoStats
    /\ frames = 0
    /\ added = <<>>
    /\ flushes = <<>>
    /\ wpOp = [kind |-> "none", result |-> Null, raised |-> "none", escaped |-> FALSE,
               before |-> [image |-> <<>>, audio |-> <<>>, cache |-> <<>>, totalWindows |-> 0,
                           stats |-> NoStats]]

\* WindowProcessor.addImageData(imageResults)
AddImageData(imageResults, maxAdds) ==
    /\ Len(added) < maxAdds
    /\ wpOp' = [kind |-> "add", result |-> Null, raised |-> "none", escaped |-> FALSE,
                before |-> Snapshot]
    /\ IF imageResults = <<>>
       THEN UNCHANGED <<currentImageMap, stats, added>>
       ELSE /\ stats' = [stats EXCEPT !.totalImageDataAdded = @ + 1]
            /\ currentImageMap' = AddResults(currentImageMap, imageResults)
            /\ added' = Append(added, [source |-> "image", items |-> imageResults,
                                       window |-> Len(flushes), during |-> frames > 0])
    /\ UNCHANGED <<currentAudioMap, wpProcessing, lruCache, totalWindows, frames, flushes>>

\* WindowProcessor.addAudioData(audioResults) without audio feature and emotion result
AddAudioData(audioResults, maxAdds) ==
    /\ Len(added) < maxAdds
    /\ wpOp' = [kind |-> "add", result |-> Null, raised |-> "none", escaped |-> FALSE,
                before |-> Snapshot]
    /\ IF audioResults = <<>>
       THEN UNCHANGED <<currentAudioMap, stats, added>>
       ELSE /\ stats' = [stats EXCEPT !.totalAudioDataAdded = @ + 1]
            /\ currentAudioMap' = AddResults(currentAudioMap, audioResults)
            /\ added' = Append(added, [source |-> "audio", items |-> audioResults,
                                       window |-> Len(flushes), during |-> frames > 0])
    /\ UNCHANGED <<currentImageMap, wpProcessing, lruCache, totalWindows, frames, flushes>>

\* WindowProcessor.processWindow with a state manager, an LRU cache and a callback,
\* up to the call of onWindowProcessed: the guard, the analysis, updateLRUCache and
\* cleanupWindow.  When the analysis or updateLRUCache throws, the call ends here: the catch
\* block cleans the window up and returns null, and finally resets isProcessing
WpProcessWindow(maxFlushes) ==
    IF Skips(wpProcessing)
    THEN /\ wpOp' = [kind |-> "skip", result |-> Null, raised |-> "none", escaped |-> FALSE,
                     before |-> Snapshot]
         /\ UNCHANGED <<currentImageMap, currentAudioMap, wpProcessing, lruCache, totalWindows,
                        stats, frames, added, flushes>>
    ELSE /\ Len(flushes) < maxFlushes
         /\ LET failed == AnalysisThrows(currentImageMap, currentAudioMap)
                              \/ UpdateThrows(currentImageMap)
                raised == IF failed THEN "analysis" ELSE "none"
                currentState == IF failed THEN Null
                                ELSE AnalyzeCurrentState(currentImageMap, currentAudioMap)
                lru == IF AnalysisThrows(currentImageMap, currentAudioMap) THEN lruCache
                       ELSE UpdateLRUCache(lruCache, BeforeThrow(currentImageMap), now)
            IN  /\ lruCache' = lru
                /\ wpProcessing' = IF failed THEN AfterFinally(raised) ELSE TRUE
                /\ frames' = IF failed THEN frames ELSE frames + 1
                /\ wpOp' = [kind |-> IF failed THEN "failed" ELSE "flush",
                            result |-> IF failed THEN Null ELSE "windowResponse",
                            raised |-> raised, escaped |-> Escapes(raised),
                            before |-> Snapshot]
                /\ flushes' = Append(flushes,
                       [image |-> currentImageMap, audio |-> currentAudioMap,
                        state |-> currentState,
                        isFocusing |-> ~failed /\ CalculateFocusState(lru, currentState),
                        windowId |-> totalWindows + 1,
                        imageDetections |-> Len(currentImageMap),
                        audioDetections |-> Len(currentAudioMap),
                        cache |-> lru, at |-> now, frames |-> frames + 1])
         /\ stats' = [stats EXCEPT !.lastWindowSize = [image |-> Len(currentImageMap),
                                                        audio |-> Len(currentAudioMap)],
                                   !.totalWindowsProcessed = @ + 1]
         /\ currentImageMap' = CleanupWindow(currentImageMap)
         /\ currentAudioMap' = CleanupWindow(currentAudioMap)
         /\ totalWindows' = totalWindows + 1
         /\ UNCHANGED added

\* processWindow after onWindowProcessed returned or threw: the inner catch, return
\* windowResponse, finally { this.isProcessing = false }
WpReturn(threw) ==
    /\ frames > 0
    /\ frames' = frames - 1
    /\ LET raised == IF threw THEN "callback" ELSE "none"
       IN  /\ wpProcessing' = AfterFinally(raised)
           /\ wpOp' = [kind |-> "return", result |-> "windowResponse", raised |-> raised,
                       escaped |-> Escapes(raised), before |-> Snapshot]
    /\ UNCHANGED <<currentImageMap, currentAudioMap, lruCache, totalWindows, stats, added,
                   flushes>>

(***************************************************************************)
(* The emotion rule engine (classifyEmotion) and the AudioTrigger that     *)
(* feeds it.  A feature vector holds integers, every feature counted in    *)
(* its own unit; normalized features and confidences are counted in        *)
(* thousandths.  A value that may be null is a sequence of length 0 or 1.  *)
(***************************************************************************)

One == 1000              \* 1.0 in thousandths

ZcrUnit == 10000         \* zeroCrossingRate is counted in 1/10000
RolloffUnit == 1000      \* spectralRolloff is counted in 1/1000
EnergyUnit == 1000000000 \* energy is counted in 1/1000000000
RmsUnit == 1000000       \* rms is counted in 1/1000000
SampleUnit == 10000      \* a sample of a buffer is counted in 1/10000

\* the raw value at which the scaled feature reaches 1
ZcrFull == ZcrUnit \div 10
CentroidFull == 5000
RolloffFull == RolloffUnit \div 2
EnergyFull == EnergyUnit \div 1000000
RmsFull == RmsUnit \div 1000

\* Math.min(raw * factor, 1) in thousandths, for a factor of 1 / full
Scale(raw, full) == Min((raw * One) \div full, One)

\* the normalized features of classifyEmotion
Normalized(f) ==
    [zcr      |-> Scale(f.zeroCrossingRate, ZcrFull),
     centroid |-> Scale(f.spectralCentroid, CentroidFull),
     rolloff  |-> Scale(f.spectralRolloff, RolloffFull),
     energy   |-> Scale(f.energy, EnergyFull),
     rms      |-> Scale(f.rms, RmsFull)]

\* the range tests of a rule: an open interval for every normalized feature
Free == <<-1, One + 1>>
Below(hi) == <<-1, hi>>
Above(lo) == <<lo, One + 1>>
Between(lo, hi) == <<lo, hi>>

Rule(emotionId, energy, rms, zcr, centroid, rolloff, confidence) ==
    [emotionId |-> emotionId, energy |-> energy, rms |-> rms, zcr |-> zcr,
     centroid |-> centroid, rolloff |-> rolloff, confidence |-> confidence]

\* the rules table of classifyEmotion, in the order of the source
Rules ==
    << Rule("comfortable",     Below(200),        Below(300),        Below(300),        Free,               Free,        900),
       Rule("satisfy",         Between(100, 400), Between(200, 500), Below(400),        Free,               Free,        800),
       Rule("call",            Between(200, 600), Free,               Between(200, 600), Between(300, 700), Free,        750),
       Rule("flighty",         Between(300, 600), Between(300, 600), Free,               Above(400),        Free,        700),
       Rule("yummy",           Between(200, 500), Free,               Between(300, 600), Free,               Above(300), 750),
       Rule("hello",           Between(300, 700), Above(300),        Free,               Between(400, 800), Free,        800),
       Rule("for_food",        Between(400, 800), Between(400, 800), Between(300, 700), Free,               Free,        850),
       Rule("ask_for_play",    Between(500, 800), Above(400),        Above(400),        Above(500),        Free,        800),
       Rule("ask_for_hunting", Above(600),        Above(500),        Above(500),        Above(600),        Free,        850),
       Rule("curious",         Between(200, 600), Free,               Between(300, 700), Between(300, 700), Free,        600),
       Rule("find_mom",        Above(700),        Above(600),        Above(600),        Above(600),        Free,        900),
       Rule("anxious",         Above(400),        Free,               Above(600),        Above(700),        Above(600), 850),
       Rule("discomfort",      Between(300, 700), Above(300),        Above(500),        Above(500),        Free,        700),
       Rule("courtship",       Above(500),        Above(400),        Free,               Between(400, 800), Above(400), 750),
       Rule("for_fight",       Above(800),        Above(800),        Above(800),        Above(800),        Above(700), 950),
       Rule("dieaway",         Above(850),        Above(700),        Above(700),        Above(700),        Free,        900),
       Rule("goout",           Above(750),        Above(600),        Above(600),        Above(600),        Free,        850),
       Rule("warning",         Above(600),        Above(500),        Above(700),        Above(700),        Free,        800),
       Rule("alert",           Above(500),        Free,               Above(600),        Above(800),        Above(700), 800),
       Rule("goaway",          Above(600),        Above(500),        Above(500),        Above(600),        Free,        750),
       Rule("unhappy",         Between(400, 800), Above(400),        Above(400),        Above(500),        Free,        700) >>

Within(x, range) == range[1] < x /\ x < range[2]

\* the condition of a rule's if
Holds(rule, n) ==
    /\ Within(n.energy, rule.energy)
    /\ Within(n.rms, rule.rms)
    /\ Within(n.zcr, rule.zcr)
    /\ Within(n.centroid, rule.centroid)
    /\ Within(n.rolloff, rule.rolloff)

\* rules that all return their constant
RuleValueFixed(rule, n) == IF ~Holds(rule, n) THEN 0 ELSE rule.confidence

\* rule(): 0 when the condition fails; comfortable returns 0.9 - normalizedEnergy
RuleValue(rule, n) ==
    IF ~Holds(rule, n) THEN 0
    ELSE IF rule.emotionId = "comfortable" THEN rule.confidence - n.energy
    ELSE rule.confidence

\* the emotions table: the category of every emotion id
Emotions ==
    [id \in {"call", "comfortable", "flighty", "satisfy", "yummy"} |-> "friendly"] @@
    [id \in {"hello", "for_food", "ask_for_play", "ask_for_hunting", "discomfort", "find_mom",
             "anxious", "courtship", "curious"} |-> "attention"] @@
    [id \in {"goaway", "goout", "dieaway", "warning", "unhappy", "alert", "for_fight"} |-> "warning"]

EmotionCategories == {"friendly", "attention", "warning"}

NoMatch == [emotionId |-> Null, confidence |-> 0]

\* a selection in which a later rule of equal confidence replaces the earlier one
ReplacesOnTie(confidence, bestMatch) ==
    confidence > 0 /\ (bestMatch = NoMatch \/ confidence >= bestMatch.confidence)

\* the condition under which the loop replaces bestMatch
Replaces(confidence, bestMatch) ==
    confidence > 0 /\ (bestMatch = NoMatch \/ confidence > bestMatch.confidence)

\* the loop over the rules, from rule i on
RECURSIVE BestMatch(_, _, _)
BestMatch(n, i, bestMatch) ==
    IF i > Len(Rules) THEN bestMatch
    ELSE LET confidence == RuleValue(Rules[i], n)
         IN  BestMatch(n, i + 1,
                       IF Replaces(confidence, bestMatch)
                       THEN [emotionId |-> Rules[i].emotionId, confidence |-> confidence]
                       ELSE bestMatch)

\* classifyEmotion(features): the result, or nothing for null
ClassifyEmotion(f) ==
    LET bestMatch == BestMatch(Normalized(f), 1, NoMatch)
    IN  IF /\ bestMatch # NoMatch
           /\ bestMatch.confidence > 500
           /\ bestMatch.emotionId \in DOMAIN Emotions
           /\ Emotions[bestMatch.emotionId] \in EmotionCategories
        THEN << [emotionId |-> bestMatch.emotionId, confidence |-> bestMatch.confidence,
                 category |-> Emotions[bestMatch.emotionId]] >>
        ELSE <<>>

(***************************************************************************)
(* AudioTrigger: the feature functions, the feature cache and              *)
(* processAudioResult.  A buffer is absent, or a sequence of samples.      *)
(***************************************************************************)

MIN_CONFIDENCE_FOR_EMOTION == 500
FEATURE_CACHE_SIZE == 100

NoBuffer == [present |-> FALSE, samples |-> <<>>]
Buffer(samples) == [present |-> TRUE, samples |-> samples]

Abs(x) == IF x < 0 THEN -x ELSE x

NaN == -1    \* the result of 0 / 0: not a finite number

\* a / b, rounded down
Ratio(a, b) == IF b = 0 THEN NaN ELSE a \div b

RECURSIVE SumOver(_, _, _)
\* the sum of term[i] for i from lo to hi
SumOver(term, lo, hi) == IF lo > hi THEN 0 ELSE term[lo] + SumOver(term, lo + 1, hi)

\* Math.sqrt, rounded down
ISqrt(x) == CHOOSE r \in 0..x : r * r <= x /\ (r + 1) * (r + 1) > x

\* calculateZCR(buffer)
CalculateZCR(b) ==
    LET crossing == [i \in 2..Len(b) |->
                        IF (b[i - 1] >= 0 /\ b[i] < 0) \/ (b[i - 1] < 0 /\ b[i] >= 0)
                        THEN 1 ELSE 0]
    IN  Ratio(SumOver(crossing, 2, Len(b)) * ZcrUnit, Len(b))

\* calculateSpectralCentroid(buffer): indices count from 0
CalculateSpectralCentroid(b) ==
    LET sum == SumOver([i \in 1..Len(b) |-> Abs(b[i])], 1, Len(b))
        weightedSum == SumOver([i \in 1..Len(b) |-> (i - 1) * Abs(b[i])], 1, Len(b))
    IN  IF sum # 0 THEN weightedSum \div sum ELSE 0

\* calculateSpectralRolloff(buffer): the first index at which 85% of the sum is reached
CalculateSpectralRolloff(b) ==
    LET magnitude == [i \in 1..Len(b) |-> Abs(b[i])]
        sum == SumOver(magnitude, 1, Len(b))
        reached == {i \in 1..Len(b) : 100 * SumOver(magnitude, 1, i) >= 85 * sum}
    IN  IF reached # {}
        THEN Ratio(((CHOOSE i \in reached : \A j \in reached : i <= j) - 1) * RolloffUnit, Len(b))
        ELSE RolloffUnit

SumOfSquares(b) == SumOver([i \in 1..Len(b) |-> b[i] * b[i]], 1, Len(b))

\* calculateEnergy(buffer)
CalculateEnergy(b) ==
    Ratio(SumOfSquares(b) * (EnergyUnit \div (SampleUnit * SampleUnit)), Len(b))

\* calculateRMS(buffer)
CalculateRMS(b) ==
    LET k == RmsUnit \div SampleUnit
    IN  IF Len(b) = 0 THEN NaN ELSE ISqrt((SumOfSquares(b) * k * k) \div Len(b))

\* the five features of a buffer
FeaturesOf(b) ==
    [zeroCrossingRate |-> CalculateZCR(b),
     spectralCentroid |-> CalculateSpectralCentroid(b),
     spectralRolloff  |-> CalculateSpectralRolloff(b),
     energy           |-> CalculateEnergy(b),
     rms              |-> CalculateRMS(b)]

IsFinite(x) == x # NaN

\* validateFeatures(features)
ValidateFeatures(f) ==
    /\ IsFinite(f.zeroCrossingRate) /\ IsFinite(f.spectralCentroid)
    /\ IsFinite(f.spectralRolloff) /\ IsFinite(f.energy) /\ IsFinite(f.rms)
    /\ f.zeroCrossingRate >= 0
    /\ f.spectralCentroid >= 0
    /\ f.spectralRolloff >= 0
    /\ f.energy >= 0
    /\ f.rms >= 0

\* generateAudioHash(buffer): the length and the average of the sampled points, to six decimals
GenerateAudioHash(b) ==
    LET step == Max(1, Len(b) \div 100)
        points == (Len(b) + step - 1) \div step
        sum == SumOver([k \in 1..points |-> b[(k - 1) * step + 1]], 1, points)
        scale == 1000000 \div SampleUnit
    IN  <<Len(b), Ratio(2 * sum * scale * step + Len(b), 2 * Len(b))>>

\* a test that lets an empty buffer through
HasBuffer(buffer) == buffer.present

\* the buffers processAudioResult and extractAudioFeatures go on with:
\* !(!audioBuffer || audioBuffer.length === 0)
HasSamples(buffer) == buffer.present /\ Len(buffer.samples) # 0

\* extractAudioFeatures(audioBuffer): the features or null, the cache afterwards, and whether
\* the feature functions ran
ExtractAudioFeatures(fc, buffer) ==
    IF ~HasSamples(buffer)
    THEN [features |-> <<>>, cache |-> fc, computed |-> FALSE]
    ELSE LET cacheKey == GenerateAudioHash(buffer.samples)
             features == FeaturesOf(buffer.samples)
             room     == IF Len(fc) >= FEATURE_CACHE_SIZE THEN Tail(fc) ELSE fc
         IN  IF LRUHas(fc, cacheKey)
             THEN [features |-> <<MapGet(fc, cacheKey)>>, cache |-> fc, computed |-> FALSE]
             ELSE IF ValidateFeatures(features)
             THEN [features |-> <<features>>, cache |-> MapSet(room, cacheKey, features),
                   computed |-> TRUE]
             ELSE [features |-> <<>>, cache |-> fc, computed |-> TRUE]

\* AudioTrigger.hasCatSound(audioResults)
TriggerHasCatSound(audioResults) ==
    \E i \in 1..Len(audioResults) :
        /\ IsCatSoundClass(audioResults[i].class)
        /\ audioResults[i].score > CAT_SOUND_THRESHOLD

NoAudioStats ==
    [totalAudioProcessed |-> 0, catSoundDetected |-> 0, emotionTriggered |-> 0,
     lastTriggerTime |-> 0]

NoFeatures == [zeroCrossingRate |-> 0, spectralCentroid |-> 0, spectralRolloff |-> 0,
               energy |-> 0, rms |-> 0]

NoAudioOp ==
    [kind |-> "none", results |-> <<>>, buffer |-> NoBuffer, input |-> NoFeatures,
     computed |-> FALSE, features |-> <<>>, result |-> <<>>,
     cacheBefore |-> <<>>, statsBefore |-> NoAudioStats]

AudInit ==
    /\ featureCache = <<>>
    /\ audioStats = NoAudioStats
    /\ audioOp = NoAudioOp

\* a direct call of the exported classifyEmotion(features)
Classify(f) ==
    /\ audioOp' = [NoAudioOp EXCEPT !.kind = "classify", !.input = f,
                                    !.result = ClassifyEmotion(f),
                                    !.cacheBefore = featureCache, !.statsBefore = audioStats]
    /\ UNCHANGED <<featureCache, audioStats>>

\* AudioTrigger.processAudioResult(audioResults, audioBuffer), with triggerEmotionAnalysis
ProcessAudioResult(audioResults, buffer, maxCalls) ==
    /\ audioStats.totalAudioProcessed < maxCalls
    /\ LET heard    == TriggerHasCatSound(audioResults)
           goesOn   == heard /\ HasSamples(buffer)
           ex       == IF goesOn THEN ExtractAudioFeatures(featureCache, buffer)
                       ELSE [features |-> <<>>, cache |-> featureCache, computed |-> FALSE]
           emotion  == IF ex.features # <<>> THEN ClassifyEmotion(ex.features[1]) ELSE <<>>
           triggers == emotion # <<>> /\ ~(emotion[1].confidence < MIN_CONFIDENCE_FOR_EMOTION)
       IN  /\ featureCache' = ex.cache
           /\ audioStats' =
                  [totalAudioProcessed |-> audioStats.totalAudioProcessed + 1,
                   catSoundDetected |-> audioStats.catSoundDetected + (IF heard THEN 1 ELSE 0),
                   emotionTriggered |-> audioStats.emotionTriggered + (IF triggers THEN 1 ELSE 0),
                   lastTriggerTime |-> IF triggers THEN now ELSE audioStats.lastTriggerTime]
           /\ audioOp' = [kind |-> "process", results |-> audioResults, buffer |-> buffer,
                          input |-> NoFeatures, computed |-> ex.computed,
                          features |-> ex.features,
                          result |-> IF triggers THEN emotion ELSE <<>>,
                          cacheBefore |-> featureCache, statsBefore |-> audioStats]

(***************************************************************************)
(* The life cycle of the engine: the timers and the RN message handlers    *)
(* its constructor sets up, and destroy().                                 *)
(***************************************************************************)

\* the message types _registerRNMessageHandlers registers a handler for
RNMessageTypes == {"deep_mewt_toggle", "take_photo", "visibility_change"}

IdleState == [stable |-> "idle", pending |-> "idle", lastStable |-> "idle", changeTime |-> 0]

NoLifeOp == [kind |-> "none", type |-> "", reached |-> FALSE, destroyed |-> FALSE,
             state |-> IdleState]

\* after the constructor of MewtEngine: new Mewt() has started the window timer of the
\* ContextManager, the WindowProcessor was built with autoStart false, and
\* _registerRNMessageHandlers has put the engine's handlers into rnReceiver.handlers
LifeInit ==
    /\ deepMewtEnabled = FALSE
    /\ windowTimer = TRUE
    /\ wpWindowTimer = FALSE
    /\ handlers = RNMessageTypes
    /\ destroyedAt = {}
    /\ lifeOp = NoLifeOp

\* WindowProcessor.stopAutoProcessing(): clearInterval and windowTimer = null when it is set
StopAutoProcessing(timer) == IF timer THEN FALSE ELSE timer

\* a destroy() that leaves the state as it is
DestroyKeepsState ==
    /\ wpWindowTimer' = StopAutoProcessing(wpWindowTimer)
    /\ destroyedAt' = destroyedAt \cup {Len(events)}
    /\ lifeOp' = [kind |-> "destroy", type |-> "", reached |-> FALSE, destroyed |-> TRUE,
                  state |-> state]
    /\ UNCHANGED <<deepMewtEnabled, windowTimer, handlers, state, lastResponse, events, upd,
                   heldRaw, heldSince, everHeld, nInputs, obsVars>>

\* MewtEngine.destroy(): stops the window processor, resets the state, and clears the
\* prediction results, the callbacks and the video element
Destroy ==
    /\ wpWindowTimer' = StopAutoProcessing(wpWindowTimer)
    /\ state' = IdleState
    /\ destroyedAt' = destroyedAt \cup {Len(events)}
    /\ lifeOp' = [kind |-> "destroy", type |-> "", reached |-> FALSE, destroyed |-> TRUE,
                  state |-> state']
    /\ UNCHANGED <<deepMewtEnabled, windowTimer, handlers, lastResponse, events, upd, heldRaw,
                   heldSince, everHeld, nInputs, obsVars>>

\* a message event with data.type = type arrives: handleMessage of the RNMessageReceiver
\* looks the handler up; the engine's handler calls handleRNMessage, which for
\* deep_mewt_toggle sets deepMewtEnabled = data.enabled
ReceiveMessage(type, dataEnabled) ==
    LET reached == type \in handlers
    IN  /\ deepMewtEnabled' = IF reached /\ type = "deep_mewt_toggle" THEN dataEnabled
                              ELSE deepMewtEnabled
        /\ lifeOp' = [kind |-> "message", type |-> type, reached |-> reached,
                      destroyed |-> (destroyedAt # {}), state |-> state]
        /\ UNCHANGED <<windowTimer, wpWindowTimer, handlers, destroyedAt, state, lastResponse,
                       events, upd, heldRaw, heldSince, everHeld, nInputs, obsVars>>

StartTime == 100 * 1000    \* Date.now() when the engine is constructed

\* time passes; a window timer that is due fires before the clock moves on
Tick(step, maxTicks) ==
    /\ now + step <= StartTime + maxTicks * WINDOW_INTERVAL
    /\ now - lastWindow < WINDOW_INTERVAL
    /\ now' = now + step

CtxInit ==
    /\ current_image = <<>>
    /\ current_audio = <<>>
    /\ image_lru = <<>>
    /\ is_now_focusing_cat = FALSE
    /\ lastWindow = StartTime
    /\ flushInfo = NoFlush
    /\ WpInit

EngineInit ==
    /\ state = [stable |-> "idle", pending |-> "idle", lastStable |-> "idle", changeTime |-> 0]
    /\ lastResponse = NoText
    /\ events = <<>>
    /\ upd = NoUpdate
    /\ heldRaw = "none"
    /\ heldSince = 0
    /\ everHeld = FALSE
    /\ nInputs = 0
    /\ ObsInit
    /\ LifeInit

\* new VLMChannel('vision', {minInterval: ...}) with its new RateLimiter
VlmConfigured(minInterval) ==
    /\ enabled = TRUE
    /\ minIntervalMs = minInterval
    /\ isProcessing = FALSE
    /\ lastCallTime = 0
    /\ callsInLastMinute = <<>>
    /\ lock = NoLock
    /\ inFlight = <<>>
    /\ starts = <<>>
    /\ attempt = NoAttempt
    /\ settled = NoSettlement
    /\ lockSet = NoLockSet
    /\ lockRead = NoLockRead
    /\ triggerOp = NoTrigger

VlmInit == VlmConfigured(DefaultMinInterval)

(***************************************************************************)
(* The engine fed by the two classifiers while the window timer runs.      *)
(***************************************************************************)

MaxTicks == 5       \* the clock runs for MaxTicks window intervals
MaxInputs == 3      \* classifier results with at least one category

Cat(score) == [class |-> "cat", score |-> score]

ImageInputs == { <<>>, <<Cat(85)>> }
AudioInputs == { <<[class |-> "meow", score |-> 60]>> }

Init ==
    /\ CacheInit
    /\ now = StartTime
    /\ CtxInit
    /\ AudInit
    /\ EngineInit
    /\ VlmInit

Image ==
    /\ \E c \in ImageInputs : HandleImageResult(c, MaxInputs)
    /\ UNCHANGED <<cacheVars, now, vlmVars>>

Audio ==
    /\ \E c \in AudioInputs : HandleAudioResult(c, MaxInputs)
    /\ UNCHANGED <<cacheVars, now, vlmVars>>

Window == ProcessWindow /\ UNCHANGED <<cacheVars, now, vlmVars>>

Clock == Tick(WINDOW_INTERVAL, MaxTicks) /\ UNCHANGED <<cacheVars, ctxVars, engineVars, vlmVars>>

Next == Image \/ Audio \/ Window \/ Clock

Spec == Init /\ [][Next]_vars

(***************************************************************************)
(* The engine fed by the image classifier alone, over enough windows for   *)
(* an entry to stay in, or to leave, the last ten of the trust cache.      *)
(***************************************************************************)

MaxTrustTicks == 11     \* window intervals explored
MaxTrustInputs == 1     \* image results with at least one category

OtherNames == <<"sofa", "chair", "table", "lamp", "rug", "plant", "door", "window", "shelf",
                "curtain">>
Other(n) == [class |-> OtherNames[n], score |-> 10]

\* a frame whose best class is a cat, followed by ten other classes
CatThenTen == <<Cat(85)>> \o [n \in 1..LRU_TRUST_COUNT |-> Other(n)]

TrustImageInputs == { <<>>, <<Cat(90)>>, CatThenTen }

TrustImage ==
    /\ \E c \in TrustImageInputs : HandleImageResult(c, MaxTrustInputs)
    /\ UNCHANGED <<cacheVars, now, vlmVars>>

TrustWindow == ProcessWindow /\ UNCHANGED <<cacheVars, now, vlmVars>>

TrustClock ==
    /\ Tick(WINDOW_INTERVAL, MaxTrustTicks)
    /\ UNCHANGED <<cacheVars, ctxVars, engineVars, vlmVars>>

TrustNext == TrustImage \/ TrustWindow \/ TrustClock

SpecTrust == Init /\ [][TrustNext]_vars

(***************************************************************************)
(* The stand-alone cache.                                                  *)
(***************************************************************************)

LRUInit ==
    /\ CacheInit
    /\ now = StartTime
    /\ CtxInit
    /\ AudInit
    /\ EngineInit
    /\ VlmInit

DoSet ==
    /\ \E key \in CacheKeys, value \in CacheValues : CacheSet(key, value)
    /\ UNCHANGED <<now, ctxVars, engineVars, vlmVars>>

DoGet ==
    /\ \E key \in CacheKeys : CacheGet(key)
    /\ UNCHANGED <<now, ctxVars, engineVars, vlmVars>>

DoRecent ==
    /\ \E count \in RecentCounts : CacheRecent(count)
    /\ UNCHANGED <<now, ctxVars, engineVars, vlmVars>>

LRUNext == DoSet \/ DoGet \/ DoRecent

SpecLRU == LRUInit /\ [][LRUNext]_vars

(***************************************************************************)
(* The VLM channel under arbitrary analyze attempts, completions of        *)
(* callAPI and configured minimum intervals.                               *)
(***************************************************************************)

MaxVlmTicks == 12       \* clock steps explored
VlmStep == DefaultMinInterval \div 3
MinIntervals == {VlmStep, DefaultMinInterval}

VlmSpecInit ==
    /\ CacheIdle
    /\ now = StartTime
    /\ CtxInit
    /\ AudInit
    /\ EngineInit
    /\ \E minInterval \in MinIntervals : VlmConfigured(minInterval)

VlmAnalyze ==
    /\ Analyze
    /\ UNCHANGED <<cacheVars, now, ctxVars, engineVars, enabled, minIntervalMs, lastCallTime,
                   lock, settled, lockSet, lockRead, triggerOp>>

VlmSettle ==
    /\ \E text \in ResultTexts : Settle(text)
    /\ UNCHANGED <<cacheVars, now, ctxVars, engineVars, enabled, minIntervalMs>>

VlmSetEnabled ==
    /\ SetEnabled(~enabled)
    /\ UNCHANGED <<cacheVars, now, ctxVars, engineVars, minIntervalMs, isProcessing,
                   lastCallTime, callsInLastMinute, lock, inFlight, starts, attempt, settled,
                   lockSet, lockRead, triggerOp>>

VlmClock ==
    /\ now + VlmStep <= StartTime + MaxVlmTicks * VlmStep
    /\ now' = now + VlmStep
    /\ UNCHANGED <<cacheVars, ctxVars, engineVars, vlmVars>>

VlmNext == VlmAnalyze \/ VlmSettle \/ VlmSetEnabled \/ VlmClock

SpecVLM == VlmSpecInit /\ [][VlmNext]_vars

(***************************************************************************)
(* The channel's analyze around a callAPI that may also resolve with a     *)
(* falsy value or reject (callAPI is awaited inside try / catch / finally).*)
(***************************************************************************)

MaxGuardTicks == 4      \* clock steps explored
MaxGuardCalls == 3      \* calls let through to callAPI

GuardAnalyze ==
    /\ Len(starts) < MaxGuardCalls
    /\ VlmAnalyze

GuardSettleWithout ==
    /\ \E outcome \in Outcomes \ {"result"} : SettleWithout(outcome)
    /\ UNCHANGED <<cacheVars, now, ctxVars, engineVars, enabled, minIntervalMs>>

GuardClock ==
    /\ now + VlmStep <= StartTime + MaxGuardTicks * VlmStep
    /\ now' = now + VlmStep
    /\ UNCHANGED <<cacheVars, ctxVars, engineVars, vlmVars>>

GuardNext == GuardAnalyze \/ VlmSettle \/ GuardSettleWithout \/ VlmSetEnabled \/ GuardClock

SpecGuard == VlmSpecInit /\ [][GuardNext]_vars

(***************************************************************************)
(* The engine with a video element: committed transitions reach the VLM    *)
(* trigger observer, whose calls settle with an answer or the fallback.    *)
(***************************************************************************)

MaxDeepTicks == 5       \* window intervals explored
MaxDeepInputs == 4      \* classifier results with at least one category

\* image results whose many classes leave no cat entry among the last ten of the trust
\* cache, so that visual presence ends with the window
DeepImageInputs == {CatThenTen}

DeepUntouched == <<cacheVars, now, enabled, minIntervalMs, lastCallTime, lock, settled, lockSet,
                   lockRead>>

DeepImage ==
    /\ \E categories \in DeepImageInputs : HandleImageResult(categories, MaxDeepInputs)
    /\ \E frame \in BOOLEAN : Trigger(frame)
    /\ UNCHANGED DeepUntouched

DeepAudio ==
    /\ \E categories \in AudioInputs : HandleAudioResult(categories, MaxDeepInputs)
    /\ \E frame \in BOOLEAN : Trigger(frame)
    /\ UNCHANGED DeepUntouched

DeepWindow == ProcessWindow /\ UNCHANGED <<cacheVars, now, vlmVars>>

DeepClock ==
    /\ Tick(WINDOW_INTERVAL, MaxDeepTicks)
    /\ UNCHANGED <<cacheVars, ctxVars, engineVars, vlmVars>>

DeepNext == DeepImage \/ DeepAudio \/ DeepWindow \/ VlmSettle \/ DeepClock

SpecDeep == Init /\ [][DeepNext]_vars

(***************************************************************************)
(* The result lock of a channel under arbitrary setLock, unlock and reads. *)
(***************************************************************************)

MaxLockTicks == 8       \* clock steps explored
LockTexts == {"", "VLM_ANSWER"}
LockData == {"d1", "d2"}
LockTtls == {0, 2 * VlmStep, LOCK_DURATION_MS}

LockOthers == <<enabled, minIntervalMs, isProcessing, lastCallTime, callsInLastMinute, inFlight,
                starts, attempt, settled, triggerOp>>

LockSetLock ==
    /\ \E text \in LockTexts, data \in LockData, ttl \in LockTtls : DoSetLock(text, data, ttl)
    /\ UNCHANGED <<cacheVars, now, ctxVars, engineVars, LockOthers>>

LockUnlock ==
    /\ Unlock
    /\ UNCHANGED <<cacheVars, now, ctxVars, engineVars, LockOthers>>

LockRead ==
    /\ ReadLock
    /\ UNCHANGED <<cacheVars, now, ctxVars, engineVars, LockOthers>>

LockClock ==
    /\ now + VlmStep <= StartTime + MaxLockTicks * VlmStep
    /\ now' = now + VlmStep
    /\ UNCHANGED <<cacheVars, ctxVars, engineVars, vlmVars>>

LockNext == LockSetLock \/ LockUnlock \/ LockRead \/ LockClock

SpecLock == Init /\ [][LockNext]_vars

(***************************************************************************)
(* The engine while the vision channel's lock is set, expires and is       *)
(* released: which text updateState arrives at.                            *)
(***************************************************************************)

MaxTextTicks == 3       \* window intervals explored
MaxTextInputs == 2      \* classifier results with at least one category

\* a lock duration short enough to expire between two updates
TextTtls == {WINDOW_INTERVAL}

TextImageInputs == {<<Cat(85)>>}

TextImage ==
    /\ \E categories \in TextImageInputs : HandleImageResult(categories, MaxTextInputs)
    /\ UNCHANGED <<cacheVars, now, vlmVars>>

TextAudio ==
    /\ \E categories \in AudioInputs : HandleAudioResult(categories, MaxTextInputs)
    /\ UNCHANGED <<cacheVars, now, vlmVars>>

TextWindow == ProcessWindow /\ UNCHANGED <<cacheVars, now, vlmVars>>

TextSetLock ==
    /\ \E text \in LockTexts, ttl \in TextTtls : DoSetLock(text, "data", ttl)
    /\ UNCHANGED <<cacheVars, now, ctxVars, engineVars, LockOthers>>

TextClock ==
    /\ Tick(WINDOW_INTERVAL, MaxTextTicks)
    /\ UNCHANGED <<cacheVars, ctxVars, engineVars, vlmVars>>

TextNext == TextImage \/ TextAudio \/ TextWindow \/ TextSetLock \/ LockUnlock \/ TextClock

SpecText == Init /\ [][TextNext]_vars

(***************************************************************************)
(* The observer manager under arbitrary registrations and dispatches.      *)
(***************************************************************************)

MaxObsOps == 2          \* addObserver / removeObserver calls after construction
ObsPriorities == {50, 95}

\* the observers registered or removed after construction
ObsActors == {"logger", "vlmTrigger", "extra"}

ObsOthers == <<cacheVars, now, ctxVars, state, lastResponse, events, upd, heldRaw, heldSince,
               everHeld, nInputs, lifeVars, vlmVars>>

ObsAdd ==
    /\ \E observer \in ObsActors, p \in ObsPriorities : DoAddObserver(observer, p, MaxObsOps)
    /\ UNCHANGED ObsOthers

ObsRemove ==
    /\ \E observer \in ObsActors : DoRemoveObserver(observer, MaxObsOps)
    /\ UNCHANGED ObsOthers

\* a dispatch during which at most two observers fail
ObsNotify == DoNotify(2) /\ UNCHANGED ObsOthers

ObsNext == ObsAdd \/ ObsRemove \/ ObsNotify

SpecObs == Init /\ [][ObsNext]_vars

(***************************************************************************)
(* The window processor under arbitrary additions and processWindow calls, *)
(* inside and outside the onWindowProcessed callback.                       *)
(***************************************************************************)

MaxWinAdds == 2         \* non-empty addImageData / addAudioData calls explored
MaxWinFlushes == 2      \* processWindow calls that pass the guard
MaxWinTicks == 1        \* window intervals of time explored

WinImageInputs == { <<>>, <<Cat(85)>>, <<Cat(40), Other(1)>> }
WinAudioInputs == { <<[class |-> "meow", score |-> 60]>>, <<[class |-> "meow", score |-> 10]>> }

WinOthers == <<cacheVars, current_image, current_audio, image_lru, is_now_focusing_cat,
               lastWindow, flushInfo, audVars, engineVars, vlmVars>>

WinAddImage ==
    /\ \E c \in WinImageInputs : AddImageData(c, MaxWinAdds)
    /\ UNCHANGED <<now, WinOthers>>

WinAddAudio ==
    /\ \E c \in WinAudioInputs : AddAudioData(c, MaxWinAdds)
    /\ UNCHANGED <<now, WinOthers>>

\* processWindow called by the timer, by manualProcess or from the callback
WinProcess == WpProcessWindow(MaxWinFlushes) /\ UNCHANGED <<now, WinOthers>>

WinReturn == WpReturn(FALSE) /\ UNCHANGED <<now, WinOthers>>

\* time passes between the calls
WinClock ==
    /\ frames = 0
    /\ now + WINDOW_INTERVAL <= StartTime + MaxWinTicks * WINDOW_INTERVAL
    /\ now' = now + WINDOW_INTERVAL
    /\ UNCHANGED <<wpVars, WinOthers>>

WinNext == WinAddImage \/ WinAddAudio \/ WinProcess \/ WinReturn \/ WinClock

SpecWin == Init /\ [][WinNext]_vars

(***************************************************************************)
(* The window processor fed with detections on both sides of the two       *)
(* thresholds: what state each flush reports.                              *)
(***************************************************************************)

ClsImageInputs == { <<Cat(85)>>, <<Cat(25)>>, <<Other(1)>> }
ClsAudioInputs == { <<[class |-> "silence", score |-> 90]>>,
                    <<[class |-> "meow", score |-> 60]>>,
                    <<[class |-> "meow", score |-> 15]>> }

ClsAddImage ==
    /\ \E c \in ClsImageInputs : AddImageData(c, MaxWinAdds)
    /\ UNCHANGED <<now, WinOthers>>

ClsAddAudio ==
    /\ \E c \in ClsAudioInputs : AddAudioData(c, MaxWinAdds)
    /\ UNCHANGED <<now, WinOthers>>

ClsProcess == WpProcessWindow(MaxWinFlushes) /\ UNCHANGED <<now, WinOthers>>

ClsReturn == WpReturn(FALSE) /\ UNCHANGED <<now, WinOthers>>

ClsNext == ClsAddImage \/ ClsAddAudio \/ ClsProcess \/ ClsReturn

SpecClassify == Init /\ [][ClsNext]_vars

(***************************************************************************)
(* The window processor under failures: detections whose class is not a    *)
(* string make the state analysis throw, and the callback may throw.       *)
(***************************************************************************)

MaxFailAdds == 3
MaxFailFlushes == 3

NotAString(score) == [class |-> "<7>", score |-> score]

FailImageInputs == { <<Cat(85)>>, <<NotAString(50)>>, <<Cat(85), NotAString(50)>> }
FailAudioInputs == { <<[class |-> "meow", score |-> 60]>>, <<NotAString(50)>> }

FailAddImage ==
    /\ \E imageResults \in FailImageInputs : AddImageData(imageResults, MaxFailAdds)
    /\ UNCHANGED <<now, WinOthers>>

FailAddAudio ==
    /\ \E audioResults \in FailAudioInputs : AddAudioData(audioResults, MaxFailAdds)
    /\ UNCHANGED <<now, WinOthers>>

FailProcess == WpProcessWindow(MaxFailFlushes) /\ UNCHANGED <<now, WinOthers>>

FailReturn ==
    /\ \E threw \in BOOLEAN : WpReturn(threw)
    /\ UNCHANGED <<now, WinOthers>>

FailNext == FailAddImage \/ FailAddAudio \/ FailProcess \/ FailReturn

SpecFail == Init /\ [][FailNext]_vars

(***************************************************************************)
(* The emotion rule engine and the AudioTrigger on their own.  A run is    *)
(* either given a feature vector and calls classifyEmotion on it, or it    *)
(* drives an AudioTrigger with classifier results and sample buffers.      *)
(***************************************************************************)

MaxEmoCalls == 3

\* raw feature values that scale to every range the rules distinguish, and past the cap
ZcrInputs == {100, 250, 350, 450, 550, 650, 750, 900}
CentroidInputs == {800, 1750, 2250, 2750, 3250, 3750, 4500}
RolloffInputs == {100, 175, 200, 250, 325, 400}
EnergyInputs == {50, 150, 250, 350, 450, 550, 650, 725, 775, 825, 900, 10000}
RmsInputs == {100, 250, 350, 450, 550, 650, 750, 900, 1000}

FeatureInputs ==
    [zeroCrossingRate : ZcrInputs, spectralCentroid : CentroidInputs,
     spectralRolloff : RolloffInputs, energy : EnergyInputs, rms : RmsInputs]

EmoAudioInputs == { <<[class |-> "meow", score |-> 60]>>,
                    <<[class |-> "meow", score |-> 15]>>,
                    <<[class |-> "silence", score |-> 90]>> }

EmoBuffers == { NoBuffer, Buffer(<<>>), Buffer(<<1, 1>>), Buffer(<<1, -1>>), Buffer(<<0, 0>>),
                Buffer(<<3>>) }

EmoOthers == <<cacheVars, now, current_image, current_audio, image_lru, is_now_focusing_cat,
               lastWindow, flushInfo, wpVars, engineVars, vlmVars>>

EmoInit ==
    /\ CacheInit
    /\ now = StartTime
    /\ CtxInit
    /\ featureCache = <<>>
    /\ audioStats = NoAudioStats
    /\ \/ audioOp = NoAudioOp
       \/ \E f \in FeatureInputs : audioOp = [NoAudioOp EXCEPT !.kind = "given", !.input = f]
    /\ EngineInit
    /\ VlmInit

EmoClassify ==
    /\ audioOp.kind = "given"
    /\ Classify(audioOp.input)
    /\ UNCHANGED EmoOthers

EmoProcess ==
    /\ audioOp.kind \in {"none", "process"}
    /\ \E audioResults \in EmoAudioInputs, buffer \in EmoBuffers :
           ProcessAudioResult(audioResults, buffer, MaxEmoCalls)
    /\ UNCHANGED EmoOthers

EmoNext == EmoClassify \/ EmoProcess

SpecEmotion == EmoInit /\ [][EmoNext]_vars

(***************************************************************************)
(* Properties of the debounced state machine (Spec).                       *)
(***************************************************************************)

\* the last step of the engine was an updateState that changed the committed state
Committed == upd.kind = "update" /\ state.stable # upd.stableBefore

\* C1: the committed state changes to S only in an updateState whose raw state is S and
\* in which the raw state has been S in every updateState for at least STATE_DEBOUNCE_MS;
\* as long as no raw state was ever held that long, stable stays idle and nothing is emitted
C1_DebounceSafety ==
    /\ Committed =>
          /\ upd.raw = state.stable
          /\ heldRaw = state.stable
          /\ upd.time - heldSince >= STATE_DEBOUNCE_MS
    /\ ~everHeld => (state.stable = "idle" /\ events = <<>>)

\* a commit to cat_audio, which the window timer clears every second
C1_Witness ==
    /\ Committed
    /\ state.stable = "cat_audio"
    /\ upd.time - heldSince >= STATE_DEBOUNCE_MS

\* C2: an updateState that changes the committed state hands exactly one event
\* (old state, new state) to the observers, any other updateState hands them none, and
\* an updateState whose raw state is the committed state emits nothing
C2_ExactlyOnce ==
    /\ state.lastStable = state.stable
    /\ upd.kind = "update" =>
          /\ state.stable # upd.stableBefore =>
                /\ Len(upd.emitted) = 1
                /\ upd.emitted[1].oldState = upd.stableBefore
                /\ upd.emitted[1].newState = state.stable
                /\ events # <<>> /\ events[Len(events)] = upd.emitted[1]
          /\ state.stable = upd.stableBefore => upd.emitted = <<>>
          /\ upd.raw = upd.stableBefore => upd.emitted = <<>>

\* the second transition of a run has just been emitted
C2_Witness ==
    /\ Committed
    /\ Len(events) = 2
    /\ upd.emitted = <<events[2]>>

\* C3: an updateState that finds its raw state S held for at least STATE_DEBOUNCE_MS
\* leaves stable = S, and if S was not the committed state it emits exactly one event
\* (old state, S)
C3_DebounceLiveness ==
    (upd.kind = "update" /\ upd.time - heldSince >= STATE_DEBOUNCE_MS) =>
        /\ state.stable = upd.raw
        /\ upd.raw # upd.stableBefore =>
              /\ Len(upd.emitted) = 1
              /\ upd.emitted[1].oldState = upd.stableBefore
              /\ upd.emitted[1].newState = upd.raw

\* a raw state held for exactly the debounce interval is committed
C3_Witness ==
    /\ upd.kind = "update"
    /\ upd.time - heldSince = STATE_DEBOUNCE_MS
    /\ upd.raw # upd.stableBefore
    /\ state.stable = upd.raw

(***************************************************************************)
(* Properties of the trust override (SpecTrust).                           *)
(***************************************************************************)

\* C4: after the flush of a window that held a target class above the visual threshold
\* the engine's hasVisual is true, whatever else the window held; after the flush of a
\* window without one, the trust cache having been empty, it is false
C4_VisualAfterFlush ==
    flushInfo.count > 0 =>
        /\ flushInfo.hadTarget => flushInfo.hasVisualAfter
        /\ (~flushInfo.hadTarget /\ flushInfo.lruEmptyBefore) => ~flushInfo.hasVisualAfter

\* C5: once a window whose target class is among its last ten classes has been flushed,
\* and as long as every window flushed after it was empty, the engine's hasVisual is true:
\* on the state, and in every updateState run since that flush
C5_TrustPersistence ==
    (flushInfo.targetAt > 0 /\ flushInfo.emptySince /\ flushInfo.trailing < LRU_TRUST_COUNT
        /\ IMAGE_LRU_SIZE >= LRU_TRUST_COUNT) =>
        /\ EngineHasVisual(current_image, image_lru)
        /\ (upd.kind = "update" /\ upd.window >= flushInfo.targetAt) => upd.hasVisual

\* an updateState in the tenth window, nine empty windows after the one with the cat
C5_Witness ==
    /\ flushInfo.targetAt = 1
    /\ flushInfo.trailing = 0
    /\ flushInfo.emptySince
    /\ flushInfo.count = 10
    /\ current_image = <<>>
    /\ upd.kind = "update" /\ upd.window = 9 /\ upd.hasVisual

(***************************************************************************)
(* LRUCache claims, stated over the touch history and not the cache order. *)
(***************************************************************************)

\* the present key with exactly r - 1 present keys touched after it
RankedKey(c, touch, r) ==
    CHOOSE k \in MapKeys(c) :
        Cardinality({j \in MapKeys(c) : touch[j].n > touch[k].n}) = r - 1

\* the present key least recently set or got
LeastRecentKey(c, touch) == RankedKey(c, touch, Len(c))

\* C6: the cache never holds more than maxSize entries; a set of a new key
\* on a full cache removes exactly the entry least recently set or got; a
\* set of a present key evicts nothing and makes that key the most recent.
C6_CapacityEviction ==
    /\ Len(cache) <= CacheMaxSize
    /\ Cardinality(MapKeys(cache)) = Len(cache)
    /\ (cacheOp.kind = "set" /\ ~cacheOp.hit /\ Len(cacheOp.before) = CacheMaxSize) =>
          /\ Len(cache) = CacheMaxSize
          /\ MapKeys(cache) =
                (MapKeys(cacheOp.before)
                    \ {LeastRecentKey(cacheOp.before, cacheOp.touchBefore)})
                \cup {cacheOp.key}
          /\ \A k \in MapKeys(cache) \ {cacheOp.key} :
                MapGet(cache, k) = MapGet(cacheOp.before, k)
    /\ (cacheOp.kind = "set" /\ ~cacheOp.hit /\ Len(cacheOp.before) < CacheMaxSize) =>
          MapKeys(cache) = MapKeys(cacheOp.before) \cup {cacheOp.key}
    /\ (cacheOp.kind = "set" /\ cacheOp.hit) =>
          /\ MapKeys(cache) = MapKeys(cacheOp.before)
          /\ \A k \in MapKeys(cache) \ {cacheOp.key} :
                MapGet(cache, k) = MapGet(cacheOp.before, k)
    /\ cacheOp.kind = "set" =>
          /\ cache[Len(cache)].key = cacheOp.key
          /\ cache[Len(cache)].value = lastTouch[cacheOp.key].v

\* a full cache received a new key, the entry least recently touched is
\* gone and an entry holding the value b survived
C6_Witness ==
    /\ cacheOp.kind = "set" /\ ~cacheOp.hit
    /\ Len(cacheOp.before) = CacheMaxSize
    /\ LeastRecentKey(cacheOp.before, cacheOp.touchBefore) \notin MapKeys(cache)
    /\ \E k \in MapKeys(cache) \ {cacheOp.key} : MapGet(cache, k) = "b"

\* C7: get of a present key promotes it to most recent and changes no key
\* and no value; recent(k), 1 <= k <= size, returns the k most recently
\* touched values, oldest of the k first; recent changes nothing.
C7_Recency ==
    /\ (cacheOp.kind = "get" /\ cacheOp.hit) =>
          /\ MapKeys(cache) = MapKeys(cacheOp.before)
          /\ Len(cache) = Len(cacheOp.before)
          /\ \A k \in MapKeys(cache) : MapGet(cache, k) = MapGet(cacheOp.before, k)
          /\ cache[Len(cache)].key = cacheOp.key
          /\ cacheOp.result = <<MapGet(cacheOp.before, cacheOp.key)>>
    /\ (cacheOp.kind = "get" /\ ~cacheOp.hit) => cache = cacheOp.before
    /\ cacheOp.kind = "recent" =>
          /\ cache = cacheOp.before
          /\ (cacheOp.count >= 1 /\ cacheOp.count <= Len(cacheOp.before)) =>
                /\ Len(cacheOp.result) = cacheOp.count
                /\ \A i \in 1..cacheOp.count :
                      cacheOp.result[i] =
                          cacheOp.touchBefore[
                              RankedKey(cacheOp.before, cacheOp.touchBefore,
                                        cacheOp.count - i + 1)].v
    /\ \A i, j \in 1..Len(cache) :
          i < j => lastTouch[cache[i].key].n < lastTouch[cache[j].key].n

\* recent(2) was read from a cache of three entries whose oldest-inserted key
\* had been promoted by a get, and the two values differ
C7_Witness ==
    /\ cacheOp.kind = "recent" /\ cacheOp.count = 2
    /\ Len(cacheOp.before) = 3
    /\ cacheOp.result = <<"a", "b">>
    /\ \E k \in MapKeys(cache) :
          /\ cache[Len(cache)].key = k
          /\ \E j \in MapKeys(cache) \ {k} :
                lastTouch[j].n > 1 /\ lastTouch[k].n > lastTouch[j].n + 1

(***************************************************************************)
(* Properties of the rate-limited VLM channel (SpecVLM).                   *)
(***************************************************************************)

\* the calls among startTimes that lie in the 60 s trailing the time t
InTrailingMinute(startTimes, t) ==
    {i \in 1..Len(startTimes) : t - startTimes[i] < MINUTE_MS}

\* C8: any two analyze attempts let through to callAPI on the channel are
\* at least minIntervalMs apart.
C8_MinInterval ==
    \A i, j \in 1..Len(starts) :
        i < j => starts[j] - starts[i] >= minIntervalMs

\* with the default interval a second call was let through exactly
\* minIntervalMs after the first and is in flight
C8_Witness ==
    /\ minIntervalMs = DefaultMinInterval
    /\ Len(starts) = 2
    /\ starts[2] - starts[1] = minIntervalMs
    /\ inFlight = <<starts[2]>>

\* C9: no rolling 60000 ms window holds more than maxPerMinute calls let
\* through, and an attempt made when maxPerMinute calls lie in the trailing
\* 60 s is declined however those calls were spaced.
C9_PerMinuteCap ==
    /\ \A i \in 1..Len(starts) :
          i + maxPerMinute <= Len(starts) =>
              starts[i + maxPerMinute] - starts[i] >= MINUTE_MS
    /\ (attempt.kind = "analyze"
          /\ Cardinality(InTrailingMinute(attempt.startsBefore, attempt.time)) >= maxPerMinute) =>
          /\ attempt.returned = "null"
          /\ starts = attempt.startsBefore

\* an enabled, idle channel whose last call lies at least minIntervalMs back
\* declined an attempt because maxPerMinute calls lay in the trailing 60 s
C9_Witness ==
    /\ attempt.kind = "analyze" /\ attempt.time = now
    /\ enabled /\ attempt.inFlightBefore = <<>>
    /\ now - lastCallTime >= minIntervalMs
    /\ Cardinality(InTrailingMinute(attempt.startsBefore, attempt.time)) = maxPerMinute
    /\ attempt.returned = "null"

\* C10: at most one callAPI is in flight; an attempt made while a call is
\* in flight returns null and starts no call, then or later.
C10_SingleFlight ==
    /\ Len(inFlight) <= 1
    /\ isProcessing <=> inFlight # <<>>
    /\ (attempt.kind = "analyze" /\ attempt.inFlightBefore # <<>>) =>
          /\ attempt.returned = "null"
          /\ starts = attempt.startsBefore
          /\ \A i \in 1..Len(inFlight) :
                \E j \in 1..Len(attempt.inFlightBefore) : inFlight[i] = attempt.inFlightBefore[j]

\* an enabled channel declined an attempt made during a call; the call has
\* settled since, time has passed and no further call was started
C10_Witness ==
    /\ attempt.kind = "analyze" /\ attempt.inFlightBefore # <<>>
    /\ enabled
    /\ attempt.returned = "null"
    /\ inFlight = <<>> /\ ~isProcessing
    /\ now >= attempt.time + minIntervalMs
    /\ starts = attempt.startsBefore

(***************************************************************************)
(* Properties of analyze's guard (SpecGuard).                              *)
(***************************************************************************)

\* C11: however a call started by analyze settles (result, falsy value,
\* rejection), isProcessing is false afterwards and an attempt on a free
\* channel is accepted; isProcessing is true exactly while a call is in flight.
C11_GuardRelease ==
    /\ isProcessing <=> inFlight # <<>>
    /\ (settled.outcome # "none" /\ inFlight = <<>>) => ~isProcessing
    /\ (attempt.kind = "analyze" /\ attempt.free) => attempt.returned = "pending"

\* a call was rejected, and the attempt made afterwards at the same instant
\* was let through
C11_Witness ==
    /\ settled.outcome = "throws"
    /\ attempt.kind = "analyze" /\ attempt.free /\ attempt.returned = "pending"
    /\ attempt.time = settled.time
    /\ Len(starts) = 2 /\ starts[2] = settled.time
    /\ isProcessing

(***************************************************************************)
(* Properties of the result lock (SpecLock).                               *)
(***************************************************************************)

\* the lock last set has not expired at the time of the last read
ReadBeforeExpiry ==
    lockSet.kind = "set" /\ lockRead.time < lockSet.time + lockSet.ttl

\* C12, as stated: after setLock(text, data, ttl), getText() returns text and
\* getLockData() returns data at every time strictly before set time + ttl; both
\* return null at or after it and after unlock().
C12_LockValidityAsStated ==
    lockRead.kind = "read" =>
        IF ReadBeforeExpiry
        THEN lockRead.text = lockSet.text /\ lockRead.data = lockSet.data
        ELSE lockRead.text = Null /\ lockRead.data = Null

\* C12, amended: as above for a non-empty text; with an empty text getText()
\* returns null also before the expiry, while getLockData() still returns data.
C12_LockValidity ==
    lockRead.kind = "read" =>
        IF ReadBeforeExpiry
        THEN /\ lockRead.data = lockSet.data
             /\ lockRead.text = IF lockSet.text # "" THEN lockSet.text ELSE Null
        ELSE lockRead.text = Null /\ lockRead.data = Null

\* a lock set with the default duration is read one clock step before its
\* expiry and yields its text and data
C12_Witness ==
    /\ lockRead.kind = "read" /\ lockSet.kind = "set"
    /\ lockSet.ttl = LOCK_DURATION_MS
    /\ lockRead.time + VlmStep = lockSet.time + lockSet.ttl
    /\ lockRead.text = "VLM_ANSWER" /\ lockRead.data = "d2"

(***************************************************************************)
(* Properties of the engine with its VLM trigger (SpecDeep).               *)
(***************************************************************************)

\* the last call settled through callVisionAPI's catch block
CallFailed == settled.outcome = "result" /\ settled.text = FALLBACK_TEXT

\* C13: when the deep-analysis request fails, the channel holds no valid lock
\* afterwards (getText() returns null) and an updateState that sees the channel
\* as the failed call left it shows the default text of the committed state.
C13_FailureNoOverride ==
    (CallFailed /\ lockSet.time = settled.time) =>
        /\ ReadText(lock, now) = Null
        /\ (upd.kind = "update" /\ upd.lockSetAt = lockSet) =>
              upd.text = STATE_MESSAGES[state.stable]

\* a transition across visual presence: exactly one of the two states is
\* cat_visual or cat_both
AcrossVisual(ev) ==
    (ev.newState \in {"cat_visual", "cat_both"}) # (ev.oldState \in {"cat_visual", "cat_both"})

\* a transition between idle and cat_visual or cat_both
IdleVisual(ev) ==
    \/ ev.oldState = "idle" /\ ev.newState \in {"cat_visual", "cat_both"}
    \/ ev.newState = "idle" /\ ev.oldState \in {"cat_visual", "cat_both"}

\* the committed transition during whose dispatch the last analyze attempt was made
AttemptEvents == {i \in 1..Len(events) : events[i].timestamp = attempt.time}

LockHeldAtUpdate ==
    /\ upd.lockSetAt.kind = "set"
    /\ upd.lockSetAt.text # ""
    /\ upd.time < upd.lockSetAt.time + upd.lockSetAt.ttl

\* C14: an updateState that finds an unexpired lock with text ends with the
\* lock text as its final text; one that finds the lock expired, released or
\* never set ends with the default text of the committed state.
C14_LockOverridesText ==
    upd.kind = "update" =>
        upd.text = IF LockHeldAtUpdate THEN upd.lockSetAt.text
                   ELSE STATE_MESSAGES[state.stable]

\* the update that commits cat_visual finds a lock and shows its text, which
\* is not the default text of cat_visual
C14_Witness ==
    /\ upd.kind = "update" /\ LockHeldAtUpdate
    /\ state.stable = "cat_visual" /\ upd.stableBefore = "idle"
    /\ upd.text = "VLM_ANSWER"
    /\ upd.text # STATE_MESSAGES[state.stable]
    /\ lastResponse = upd.text

(***************************************************************************)
(* Properties of the observer manager (SpecObs).                           *)
(***************************************************************************)

\* C15: during a dispatch every registered observer is invoked, notify returns
\* normally, and the failure of every observer that failed, by throwing or by a
\* rejection of the promise its async notify returned, was caught and logged by
\* the dispatcher.
C15_ObserverFailureIsolation ==
    notified.kind = "notify" =>
        /\ notified.invoked = notified.list
        /\ notified.returned
        /\ notified.failed \subseteq notified.logged
        /\ notified.unhandled = {}

\* the four observers of the default registration that the statement of the
\* order names, in the order it gives them
NamedDefaults == <<"logger", "rnMessenger", "vlmTrigger", "uiNotifier">>

ItemsOf(source, w) ==
    UNION { {added[i].items[j] : j \in 1..Len(added[i].items)} :
            i \in {n \in 1..Len(added) : added[n].source = source /\ added[n].window = w} }

\* for every class of a set of detections the highest score among them
MaxOf(items) ==
    [c \in {it.class : it \in items} |->
        CHOOSE v \in {it.score : it \in {x \in items : x.class = c}} :
            \A it \in items : it.class = c => it.score <= v]

\* a Map as the function from its keys to their values
AsFunction(map) == [c \in MapKeys(map) |-> MapGet(map, c)]

\* C18: in every state each window map holds, for every class, the highest score
\* added for that class since the last cleanup (so a stored score never decreases
\* between two flushes), and a flush leaves both maps empty.
C18_WindowAggregation ==
    /\ AsFunction(currentImageMap) = MaxOf(ItemsOf("image", Len(flushes)))
    /\ AsFunction(currentAudioMap) = MaxOf(ItemsOf("audio", Len(flushes)))
    /\ wpOp.kind = "flush" => currentImageMap = <<>> /\ currentAudioMap = <<>>

\* after a flush, cat 0.85 and then cat 0.40 with another class were added: the map
\* holds 0.85 for cat
C18_Witness ==
    /\ Len(flushes) = 1
    /\ wpOp.kind = "add"
    /\ Len(added) = 2
    /\ added[1].window = 1 /\ added[1].items = <<Cat(85)>>
    /\ added[2].window = 1 /\ added[2].items = <<Cat(40), Other(1)>>
    /\ AsFunction(currentImageMap) = [c \in {"cat", Other(1).class} |-> IF c = "cat" THEN 85 ELSE 10]

\* flush number k analysed exactly the detections added for window number k and
\* wrote every class of its image map to the trust cache
FlushedOnce(k) ==
    /\ AsFunction(flushes[k].image) = MaxOf(ItemsOf("image", k - 1))
    /\ AsFunction(flushes[k].audio) = MaxOf(ItemsOf("audio", k - 1))
    /\ flushes[k].windowId = k
    /\ \A i \in 1..Len(flushes[k].image) :
          LET key == <<flushes[k].image[i].key, flushes[k].at>>
          IN  /\ LRUHas(flushes[k].cache, key)
              /\ MapGet(flushes[k].cache, key).score = flushes[k].image[i].value

\* C19: at most one processWindow is past the guard at any time; a processWindow
\* called while another one is in progress returns null and leaves the window maps,
\* the trust cache and the window counters as they were; every window is analysed
\* and written to the trust cache by exactly one flush.
C19_FlushesNeverOverlap ==
    /\ frames <= 1
    /\ wpProcessing <=> frames = 1
    /\ wpOp.kind = "skip" => wpOp.result = Null /\ wpOp.before = Snapshot
    /\ totalWindows = Len(flushes) /\ stats.totalWindowsProcessed = Len(flushes)
    /\ \A k \in 1..Len(flushes) : flushes[k].frames = 1 /\ FlushedOnce(k)

\* the callback of the first flush added a detection and called processWindow, which
\* was skipped
C19_Witness ==
    /\ wpOp.kind = "skip"
    /\ wpProcessing
    /\ Len(flushes) = 1
    /\ flushes[1].image # <<>>
    /\ currentImageMap # <<>>

\* the detection list added[i] is held by the window being collected, or was analysed
\* by the flush of its window
Kept(i) ==
    LET w     == added[i].window
        map   == IF Len(flushes) = w
                 THEN (IF added[i].source = "image" THEN currentImageMap ELSE currentAudioMap)
                 ELSE (IF added[i].source = "image" THEN flushes[w + 1].image
                       ELSE flushes[w + 1].audio)
    IN  \A j \in 1..Len(added[i].items) :
            /\ LRUHas(map, added[i].items[j].class)
            /\ MapGet(map, added[i].items[j].class) >= added[i].items[j].score

\* C20: a detection added while a flush is in progress is not part of the window
\* that flush analysed and reported, stays in the window maps until the next flush,
\* and is part of what the next flush analyses.
C20_IngestionDuringFlush ==
    \A i \in 1..Len(added) :
        added[i].during =>
            /\ added[i].window >= 1
            /\ Kept(i)
            /\ LET f == flushes[added[i].window]
               IN  /\ AsFunction(f.image) = MaxOf(ItemsOf("image", added[i].window - 1))
                   /\ AsFunction(f.audio) = MaxOf(ItemsOf("audio", added[i].window - 1))
                   /\ f.imageDetections = Cardinality(DOMAIN MaxOf(ItemsOf("image", added[i].window - 1)))
                   /\ f.audioDetections = Cardinality(DOMAIN MaxOf(ItemsOf("audio", added[i].window - 1)))
            /\ Len(flushes) > added[i].window =>
                  LET g == flushes[added[i].window + 1]
                  IN  /\ AsFunction(g.image) = MaxOf(ItemsOf("image", added[i].window))
                      /\ AsFunction(g.audio) = MaxOf(ItemsOf("audio", added[i].window))

\* the callback of the first flush added cat 0.85, and the second flush, of a window
\* that got nothing else, reported cat_visual for it
C20_Witness ==
    /\ Len(flushes) = 2
    /\ Len(added) = 2
    /\ added[1].window = 0 /\ ~added[1].during
    /\ added[2].during /\ added[2].window = 1 /\ added[2].items = <<Cat(85)>>
    /\ flushes[2].state = "cat_visual"

(***************************************************************************)
(* Properties of the rate limiter's call list (SpecVLM).                   *)
(***************************************************************************)

\* C30: right after a recordCall the list callsInLastMinute holds, besides the
\* timestamp just appended, only timestamps less than 60 s old.
C30_RecordTrims ==
    settled.outcome = "result" /\ settled.time = now =>
        /\ callsInLastMinute # <<>>
        /\ callsInLastMinute[Len(callsInLastMinute)] = now
        /\ \A i \in 1..Len(callsInLastMinute) : now - callsInLastMinute[i] < MINUTE_MS

\* C27: an analyze made while the channel is disabled, a call is in flight or the
\* limiter refuses returns null, starts no callAPI and leaves lastCallTime, the
\* lock and isProcessing as they were.
C27_DeclinedIsOutcome ==
    [][(Analyze /\ ~ChannelFree(now)) =>
          /\ attempt'.returned = "null"
          /\ inFlight' = inFlight /\ starts' = starts
          /\ lastCallTime' = lastCallTime
          /\ lock' = lock
          /\ isProcessing' = isProcessing]_vars

\* the limiter has just refused an enabled, idle channel that holds a lock
C27_Witness ==
    /\ attempt.kind = "analyze" /\ attempt.time = now /\ attempt.returned = "null"
    /\ ~attempt.free
    /\ enabled /\ inFlight = <<>> /\ ~isProcessing
    /\ lastCallTime > 0
    /\ lock # NoLock

\* C21: a processWindow that runs when nothing was added since the last cleanup (or
\* since construction) analyses two empty maps, reports idle with no detections,
\* leaves the trust cache as it was and hands no TransitionEvent to the observers.
C21_FlushIdempotent ==
    [][(/\ Len(flushes') = Len(flushes) + 1
        /\ ItemsOf("image", Len(flushes)) = {}
        /\ ItemsOf("audio", Len(flushes)) = {}) =>
          LET f == flushes'[Len(flushes')]
          IN  /\ f.image = <<>> /\ f.audio = <<>>
              /\ f.imageDetections = 0 /\ f.audioDetections = 0
              /\ f.state = "idle"
              /\ lruCache' = lruCache
              /\ events' = events]_vars

\* two flushes in a row, the first of a window holding a cat, the second of a window
\* nothing was added to: the cache still holds just the entry of the first
C21_Witness ==
    /\ Len(flushes) = 2
    /\ wpOp.kind = "flush"
    /\ flushes[1].image # <<>>
    /\ ItemsOf("image", 1) = {} /\ ItemsOf("audio", 1) = {}
    /\ flushes[2].cache = flushes[1].cache
    /\ Len(lruCache) = 1

\* the classes of the detections of one source added so far
ClassesAdded(source) ==
    UNION { {added[i].items[j].class : j \in 1..Len(added[i].items)} :
            i \in {n \in 1..Len(added) : added[n].source = source} }

\* C22: the trust cache changes only in a step of processWindow that passed the guard;
\* that step leaves one entry, keyed by class and time, for every class of the image
\* map it flushes and adds nothing else; addImageData and addAudioData leave the cache
\* unchanged, and no entry of the cache is of a class that came from the audio source.
C22_TrustWrites ==
    [][/\ lruCache' # lruCache => Len(flushes') = Len(flushes) + 1
       /\ Len(added') # Len(added) => lruCache' = lruCache
       /\ Len(flushes') = Len(flushes) + 1 =>
             /\ \A i \in 1..Len(currentImageMap) :
                   /\ LRUHas(lruCache', <<currentImageMap[i].key, now>>)
                   /\ MapGet(lruCache', <<currentImageMap[i].key, now>>).class
                         = currentImageMap[i].key
                   /\ MapGet(lruCache', <<currentImageMap[i].key, now>>).score
                         = currentImageMap[i].value
             /\ \A k \in 1..Len(lruCache') :
                   \/ LRUHas(lruCache, lruCache'[k].key)
                   \/ \E i \in 1..Len(currentImageMap) :
                         lruCache'[k].key = <<currentImageMap[i].key, now>>
       /\ \A k \in 1..Len(lruCache') :
             /\ lruCache'[k].value.class \in ClassesAdded("image")'
             /\ lruCache'[k].value.class \notin ClassesAdded("audio")']_vars

\* a window holding two image classes and an audio class was flushed: the cache holds
\* the two image classes
C22_Witness ==
    /\ wpOp.kind = "flush"
    /\ Len(flushes) = 1
    /\ Len(flushes[1].image) = 2
    /\ flushes[1].audio # <<>>
    /\ Len(lruCache) = 2

(***************************************************************************)
(* Properties of the state classification (SpecClassify).                  *)
(***************************************************************************)

\* the canonical table
StateTable(hasVisual, hasAudio) ==
    CASE ~hasVisual /\ ~hasAudio -> "idle"
      [] hasVisual /\ ~hasAudio  -> "cat_visual"
      [] ~hasVisual /\ hasAudio  -> "cat_audio"
      [] hasVisual /\ hasAudio   -> "cat_both"

\* a cat was seen above the visual threshold among the detections added for window w + 1
SawCat(w) ==
    \E it \in ItemsOf("image", w) : it.class \in {"cat", "Tabby_Cat"} /\ it.score > 30

\* a cat was heard above the acoustic threshold among them
HeardCat(w) ==
    \E it \in ItemsOf("audio", w) : it.class \in {"cat", "Tabby_Cat", "meow"} /\ it.score > 20

\* C23: determineState is the canonical table; the state every flush reports is the
\* table's entry for whether a cat was seen above 0.3 and heard above 0.2 in its
\* own window, whatever the earlier windows and the trust cache hold; a window with
\* visual cat 0.85 and acoustic silence 0.9 is reported as cat_visual.
C23_CanonicalTable ==
    /\ \A v, a \in BOOLEAN : DetermineState(v, a) = StateTable(v, a)
    /\ \A k \in 1..Len(flushes) : flushes[k].state = StateTable(SawCat(k - 1), HeardCat(k - 1))
    /\ \A k \in 1..Len(flushes) :
          (/\ AsFunction(flushes[k].image) = [c \in {"cat"} |-> 85]
           /\ AsFunction(flushes[k].audio) = [c \in {"silence"} |-> 90]) =>
              flushes[k].state = "cat_visual"

\* the window with cat 0.85 and silence 0.9 was flushed as cat_visual, and the empty
\* window after it as idle, although the trust cache still holds the cat
C23_Witness ==
    /\ Len(flushes) = 2
    /\ AsFunction(flushes[1].image) = [c \in {"cat"} |-> 85]
    /\ AsFunction(flushes[1].audio) = [c \in {"silence"} |-> 90]
    /\ flushes[1].state = "cat_visual"
    /\ flushes[2].state = "idle"
    /\ flushes[2].isFocusing

(***************************************************************************)
(* Properties of the emotion rule engine                                   *)
(***************************************************************************)

\* the rules whose predicate holds on the normalized features n
Firing(n) == {i \in 1..Len(Rules) : Holds(Rules[i], n)}

\* the highest confidence among the rules that fire
TopConfidence(n) ==
    CHOOSE c \in {RuleValue(Rules[i], n) : i \in Firing(n)} :
        \A j \in Firing(n) : RuleValue(Rules[j], n) <= c

\* the first rule of the table that reaches the highest confidence
FirstTop(n) ==
    CHOOSE i \in Firing(n) :
        /\ RuleValue(Rules[i], n) = TopConfidence(n)
        /\ \A j \in Firing(n) : RuleValue(Rules[j], n) = TopConfidence(n) => i <= j

\* C24: classifyEmotion returns the rule of highest confidence among the rules whose predicate
\* holds on the normalized features, the first of the table among several of that confidence,
\* and null exactly when no rule fires or the best confidence is at most 0.5
C24_EmotionSelection ==
    audioOp.kind = "classify" =>
        LET n == Normalized(audioOp.input)
        IN  IF Firing(n) = {} \/ TopConfidence(n) <= 500
            THEN audioOp.result = <<>>
            ELSE /\ audioOp.result # <<>>
                 /\ audioOp.result[1].emotionId = Rules[FirstTop(n)].emotionId
                 /\ audioOp.result[1].confidence = TopConfidence(n)

\* for_food and ask_for_hunting both fire with 0.85, nothing fires higher, and for_food is returned
C24_Witness ==
    /\ audioOp.kind = "classify"
    /\ audioOp.result # <<>>
    /\ audioOp.result[1].emotionId = "for_food"
    /\ \E i \in Firing(Normalized(audioOp.input)) : Rules[i].emotionId = "ask_for_hunting"

\* what classifyEmotion returned is rule i's emotion, its category and the confidence c
Returned(i, c) ==
    /\ audioOp.result # <<>>
    /\ audioOp.result[1].emotionId = Rules[i].emotionId
    /\ audioOp.result[1].category = Emotions[Rules[i].emotionId]
    /\ audioOp.result[1].confidence = c

QuietExample ==
    [zeroCrossingRate |-> ZcrUnit \div 100, spectralCentroid |-> 800,
     spectralRolloff |-> RolloffUnit \div 5, energy |-> EnergyUnit \div 100000,
     rms |-> RmsUnit \div 1000]

\* C26: on the quiet example vector classifyEmotion returns comfortable, in category friendly,
\* with a confidence above 0.5
C26_QuietIsComfortable ==
    (audioOp.kind = "classify" /\ audioOp.input = QuietExample) =>
        /\ audioOp.result # <<>>
        /\ audioOp.result[1].emotionId = "comfortable"
        /\ audioOp.result[1].category = "friendly"
        /\ audioOp.result[1].confidence > 500

(***************************************************************************)
(* Properties of the AudioTrigger                                          *)
(***************************************************************************)

\* the last call was processAudioResult with a cat sound and an absent or zero-length buffer
EmptyBufferCall ==
    /\ audioOp.kind = "process"
    /\ \E i \in 1..Len(audioOp.results) :
           audioOp.results[i].class = "meow" /\ audioOp.results[i].score > CAT_SOUND_THRESHOLD
    /\ (~audioOp.buffer.present \/ Len(audioOp.buffer.samples) = 0)

\* C29: processAudioResult given a cat sound with an absent or zero-length buffer returns null,
\* computes no feature vector and leaves the feature cache and emotionTriggered unchanged
C29_EmptyBufferPolicy ==
    EmptyBufferCall =>
        /\ audioOp.result = <<>>
        /\ ~audioOp.computed
        /\ audioOp.features = <<>>
        /\ featureCache = audioOp.cacheBefore
        /\ audioStats.emotionTriggered = audioOp.statsBefore.emotionTriggered

\* a zero-length buffer arrives with a cat sound at a trigger that has cached features and has
\* triggered an emotion before
C29_Witness ==
    /\ EmptyBufferCall
    /\ audioOp.buffer.present
    /\ audioOp.cacheBefore # <<>>
    /\ audioOp.statsBefore.emotionTriggered > 0
    /\ audioStats.catSoundDetected = audioOp.statsBefore.catSoundDetected + 1

(***************************************************************************)
(* Properties of the window processor under failures                       *)
(***************************************************************************)

\* C28 as stated: processWindow never lets an exception out, and it returns with isProcessing
\* false on every return path
C28_EveryReturnResets ==
    /\ ~wpOp.escaped
    /\ wpOp.kind \in {"skip", "failed", "return"} => ~wpProcessing

\* C28: processWindow never lets an exception out, be it raised by the callback or by the state
\* analysis; every call that passed the isProcessing guard returns with isProcessing false,
\* a call skipped by the guard returns null inside the call in progress, which resets the flag
\* when it returns; so isProcessing is false whenever no call is in progress, and a tick is
\* never skipped
C28_TickLoopSurvives ==
    /\ ~wpOp.escaped
    /\ wpOp.kind \in {"failed", "return"} => ~wpProcessing
    /\ wpOp.kind = "failed" =>
           /\ wpOp.result = Null /\ frames = 0
           /\ currentImageMap = <<>> /\ currentAudioMap = <<>>
    /\ wpOp.kind = "skip" => wpOp.result = Null /\ wpProcessing /\ frames > 0
    /\ frames = 0 => ~wpProcessing
    /\ frames \in {0, 1}

\* a window whose analysis threw is followed by a window that is analysed, and the callback
\* of that one throws
C28_Witness ==
    /\ wpOp.kind = "return" /\ wpOp.raised = "callback"
    /\ frames = 0
    /\ \E k \in 1..(Len(flushes) - 1) :
           /\ flushes[k].state = Null /\ flushes[k].image # <<>>
           /\ flushes[k + 1].state = "cat_visual"

(***************************************************************************)
(* Further properties of the stand-alone LRUCache                          *)
(***************************************************************************)

\* C38: recent(k) never returns more than k values, for every k >= 0: nothing for k = 0 and
\* all values for k greater than the size
C38_RecentAtMost ==
    cacheOp.kind = "recent" =>
        /\ Len(cacheOp.result) <= cacheOp.count
        /\ cacheOp.count = 0 => cacheOp.result = <<>>
        /\ cacheOp.count > Len(cacheOp.before) =>
               cacheOp.result = [i \in 1..Len(cacheOp.before) |-> cacheOp.before[i].value]

(***************************************************************************)
(* Further properties of the RateLimiter behind VLMChannel.analyze         *)
(***************************************************************************)

\* C40: driven through analyze only, callsInLastMinute never holds more than maxPerMinute
\* timestamps, and lastCallTime is the largest timestamp recorded so far, or 0 when nothing
\* was recorded
C40_LimiterRecords ==
    /\ Len(callsInLastMinute) <= maxPerMinute
    /\ \A i \in 1..Len(callsInLastMinute) : callsInLastMinute[i] <= lastCallTime
    /\ callsInLastMinute # <<>> => lastCallTime = callsInLastMinute[Len(callsInLastMinute)]
    /\ settled.outcome = "result" => lastCallTime = settled.time
    /\ lastCallTime = 0 => callsInLastMinute = <<>> /\ settled.outcome # "result"
    /\ starts = <<>> => lastCallTime = 0
    /\ lastCallTime # 0 => \E i \in 1..Len(starts) : starts[i] <= lastCallTime

\* the list is full: four calls were started and the third recording has just been made
C40_Witness ==
    /\ Len(callsInLastMinute) = maxPerMinute
    /\ Len(starts) > maxPerMinute
    /\ lastCallTime = callsInLastMinute[maxPerMinute]
    /\ settled.outcome = "result" /\ settled.time = now

(***************************************************************************)
(* Further properties of the emotion rule engine and the AudioTrigger      *)
(***************************************************************************)

\* classifyEmotion returns the emotion of rule i for the feature vector f
Wins(i, f) ==
    LET result == ClassifyEmotion(f)
    IN  result # <<>> /\ result[1].emotionId = Rules[i].emotionId

\* C37: every one of the 21 rules can win: whatever vector was classified, for each rule
\* there is a feature vector for which classifyEmotion returns that rule's emotion
C37_EveryRuleCanWin ==
    audioOp.kind = "classify" =>
        \A i \in 1..Len(Rules) : \E f \in FeatureInputs : Wins(i, f)

\* what an AudioTrigger that has processed nothing before extracts from the buffer
FreshFeatures(audioResults, buffer) ==
    IF TriggerHasCatSound(audioResults) /\ HasSamples(buffer)
    THEN ExtractAudioFeatures(<<>>, buffer).features
    ELSE <<>>

\* what an AudioTrigger that has processed nothing before returns
FreshResult(audioResults, buffer) ==
    LET features == FreshFeatures(audioResults, buffer)
        emotion  == IF features # <<>> THEN ClassifyEmotion(features[1]) ELSE <<>>
    IN  IF emotion # <<>> /\ ~(emotion[1].confidence < MIN_CONFIDENCE_FOR_EMOTION)
        THEN emotion ELSE <<>>

\* C39: the result of processAudioResult does not depend on what was processed before: the
\* features and the emotion are those a fresh AudioTrigger gives for the same classification
\* and the same buffer, and features taken from the cache were computed from this buffer
C39_HistoryIndependent ==
    audioOp.kind = "process" =>
        /\ audioOp.features = FreshFeatures(audioOp.results, audioOp.buffer)
        /\ audioOp.result = FreshResult(audioOp.results, audioOp.buffer)
        /\ audioOp.features # <<>> =>
               audioOp.features[1] = FeaturesOf(audioOp.buffer.samples)

(***************************************************************************)
(* The engine over its life: classifier results, the window timer of its   *)
(* Mewt instance, RN messages and destroy(), in any order.                  *)
(***************************************************************************)

MaxLifeTicks == 2       \* window intervals explored
MaxLifeInputs == 2      \* classifier results with at least one category

\* the types of the messages that arrive, one of them without a handler
LifeMessageTypes == RNMessageTypes \cup {"unknown"}

LifeImage ==
    /\ \E categories \in ImageInputs : HandleImageResult(categories, MaxLifeInputs)
    /\ UNCHANGED <<cacheVars, now, vlmVars>>

LifeAudio ==
    /\ \E categories \in AudioInputs : HandleAudioResult(categories, MaxLifeInputs)
    /\ UNCHANGED <<cacheVars, now, vlmVars>>

\* the window timer of the ContextManager fires while it is set
LifeWindow ==
    /\ windowTimer
    /\ ProcessWindow
    /\ UNCHANGED <<cacheVars, now, vlmVars>>

LifeMessage ==
    /\ \E type \in LifeMessageTypes, dataEnabled \in BOOLEAN : ReceiveMessage(type, dataEnabled)
    /\ UNCHANGED <<cacheVars, now, ctxVars, vlmVars>>

LifeDestroy == Destroy /\ UNCHANGED <<cacheVars, now, ctxVars, vlmVars>>

LifeClock ==
    /\ Tick(WINDOW_INTERVAL, MaxLifeTicks)
    /\ UNCHANGED <<cacheVars, ctxVars, engineVars, vlmVars>>

LifeNext == LifeImage \/ LifeAudio \/ LifeWindow \/ LifeMessage \/ LifeDestroy \/ LifeClock

SpecLife == Init /\ [][LifeNext]_vars

\* C31: destroy() releases all resources: when it returns the stable, pending and last
\* stable states are idle; an RN message of a type the engine registered for, arriving
\* after destroy(), does not reach the engine; and after destroy() neither the window
\* timer of the Mewt instance nor that of the window processor is running
C31_DestroyReleases ==
    /\ lifeOp.kind = "destroy" =>
           /\ lifeOp.state.stable = "idle"
           /\ lifeOp.state.pending = "idle"
           /\ lifeOp.state.lastStable = "idle"
    /\ (lifeOp.kind = "message" /\ lifeOp.destroyed /\ lifeOp.type \in RNMessageTypes) =>
           ~lifeOp.reached
    /\ destroyedAt # {} => ~windowTimer /\ ~wpWindowTimer

(***************************************************************************)
(* The engine emitting events before and after destroy().                  *)
(***************************************************************************)

MaxChainTicks == 4      \* window intervals explored
MaxChainInputs == 2     \* classifier results with at least one category

ChainImage ==
    /\ \E categories \in ImageInputs : HandleImageResult(categories, MaxChainInputs)
    /\ UNCHANGED <<cacheVars, now, vlmVars>>

ChainAudio ==
    /\ \E categories \in AudioInputs : HandleAudioResult(categories, MaxChainInputs)
    /\ UNCHANGED <<cacheVars, now, vlmVars>>

ChainClock ==
    /\ Tick(WINDOW_INTERVAL, MaxChainTicks)
    /\ UNCHANGED <<cacheVars, ctxVars, engineVars, vlmVars>>

ChainNext == ChainImage \/ ChainAudio \/ LifeWindow \/ LifeDestroy \/ ChainClock

SpecChain == Init /\ [][ChainNext]_vars

\* the state the engine held as last stable when it emitted its i-th event, had it
\* announced every change of the stable state
Announced(i) == IF i = 1 THEN "idle" ELSE events[i - 1].newState

\* every event changes the state and carries the metadata its new state was derived from
WellFormed(ev) ==
    /\ ev.oldState # ev.newState
    /\ DetermineState(ev.hasVisual, ev.hasAudio) = ev.newState

\* C36 as stated: the events form a chain that starts at idle
C36_Chain ==
    \A i \in 1..Len(events) : WellFormed(events[i]) /\ events[i].oldState = Announced(i)

\* C36: the events form a chain that starts at idle and starts again at idle after every
\* destroy(): in every event oldState differs from newState, the metadata maps under
\* determineState to newState, and oldState is the newState of the event before it unless
\* the event is the first or destroy() ran since the event before it, and then it is idle
C36_ChainPerLife ==
    \A i \in 1..Len(events) :
        /\ WellFormed(events[i])
        /\ events[i].oldState = IF (i - 1) \in destroyedAt THEN "idle" ELSE Announced(i)

\* two events, the second emitted after a destroy() that followed the first
C36_Witness ==
    /\ Len(events) = 2
    /\ destroyedAt = {1}
    /\ events[1].newState # "idle"
    /\ events[2].oldState = "idle"
    /\ upd.emitted = <<events[2]>>

(***************************************************************************)
(* The engine fed with image results whose classes all stay at or below    *)
(* the visual threshold.                                                   *)
(***************************************************************************)

MaxFaintTicks == 3      \* window intervals explored
MaxFaintInputs == 2     \* classifier results with at least one category

\* a faint cat label, a cat label exactly at the threshold, another class, nothing
FaintImageInputs == { <<>>, <<Cat(25)>>, <<Cat(CAT_DETECTION_THRESHOLD)>>, <<Other(1)>> }

FaintImage ==
    /\ \E categories \in FaintImageInputs : HandleImageResult(categories, MaxFaintInputs)
    /\ UNCHANGED <<cacheVars, now, vlmVars>>

FaintWindow == ProcessWindow /\ UNCHANGED <<cacheVars, now, vlmVars>>

FaintClock ==
    /\ Tick(WINDOW_INTERVAL, MaxFaintTicks)
    /\ UNCHANGED <<cacheVars, ctxVars, engineVars, vlmVars>>

FaintNext == FaintImage \/ FaintWindow \/ FaintClock

SpecFaint == Init /\ [][FaintNext]_vars

\* C35: while no target-class label has exceeded CAT_DETECTION_THRESHOLD in any window, no
\* updateState computes hasVisual true, the hasVisual the engine would compute is false,
\* is_now_focusing_cat is false, and the stable state stays idle
C35_TrustNeedsThreshold ==
    /\ ~upd.hasVisual
    /\ ~EngineHasVisual(current_image, image_lru)
    /\ ~is_now_focusing_cat
    /\ state.stable = "idle" /\ events = <<>>

(***************************************************************************)
(* Further properties of the VLMTriggerObserver.                           *)
(***************************************************************************)

(***************************************************************************)
(* The engine with a video element whose frames may be missing, fed so     *)
(* that every kind of committed transition occurs.                         *)
(***************************************************************************)

MaxEdgeTicks == 4       \* window intervals explored
MaxEdgeInputs == 3      \* classifier results with at least one category

\* image results that keep visual presence through the trust cache, that let it end with
\* the window, and results without categories
EdgeImageInputs == { <<>>, <<Cat(85)>>, CatThenTen }

EdgeImage ==
    /\ \E categories \in EdgeImageInputs : HandleImageResult(categories, MaxEdgeInputs)
    /\ \E frame \in BOOLEAN : Trigger(frame)
    /\ UNCHANGED DeepUntouched

EdgeAudio ==
    /\ \E categories \in AudioInputs : HandleAudioResult(categories, MaxEdgeInputs)
    /\ \E frame \in BOOLEAN : Trigger(frame)
    /\ UNCHANGED DeepUntouched

EdgeClock ==
    /\ Tick(WINDOW_INTERVAL, MaxEdgeTicks)
    /\ UNCHANGED <<cacheVars, ctxVars, engineVars, vlmVars>>

\* a call let through to callAPI stays in flight for the few seconds explored
EdgeNext == EdgeImage \/ EdgeAudio \/ DeepWindow \/ EdgeClock

SpecEdge == Init /\ [][EdgeNext]_vars

\* the dispatch recorded in triggerOp made the observer call analyze
Analyzed == attempt # triggerOp.attemptBefore

\* the calls let through to callAPI so far were made at distinct events across visual presence
OnePerEvent ==
    /\ \A j \in 1..Len(starts) :
           \E i \in 1..Len(events) : events[i].timestamp = starts[j] /\ AcrossVisual(events[i])
    /\ \A j, k \in 1..Len(starts) : j < k => starts[j] < starts[k]

\* C32: at a committed transition the VLMTriggerObserver calls analyze if and only if visual
\* presence differs between oldState and newState and getFrame returned a frame; the call
\* is made at the time of the event, and no two calls belong to one event
C32_AnalyzeIffEdgeAndFrame ==
    /\ triggerOp.kind = "notify" =>
           /\ Analyzed <=> (AcrossVisual(triggerOp.event[1]) /\ triggerOp.frame)
           /\ Analyzed => attempt.kind = "analyze" /\ attempt.time = triggerOp.time
           /\ triggerOp.event[1].timestamp = triggerOp.time
    /\ triggerOp.kind = "none" => attempt = NoAttempt
    /\ OnePerEvent

\* a transition across visual presence without a frame made no call, after an earlier
\* transition with a frame had made one
C32_Witness ==
    /\ triggerOp.kind = "notify" /\ ~triggerOp.frame /\ AcrossVisual(triggerOp.event[1])
    /\ ~Analyzed
    /\ attempt.kind = "analyze" /\ attempt.time < triggerOp.time

(***************************************************************************)
(* The engine running without end.  Time is read relative to now: when a   *)
(* window interval passes, every stored time moves back by the interval,   *)
(* and times at least the debounce interval back, which no comparison of   *)
(* the code tells apart, are merged.  The histories kept for the safety    *)
(* properties (events, upd, flushInfo, the input counter) are left alone.  *)
(***************************************************************************)

MaxLiveEntries == 2     \* cat results arrive while the trust cache holds fewer entries

LiveImageInputs == { <<>>, <<Cat(85)>> }

\* the state updateState leaves for the raw state rawState at time t
Debounced(st, rawState, t) ==
    LET s1      == DebouncePending(st, rawState, t)
        elapsed == DebounceElapsed(t, s1.changeTime)
        s2      == IF elapsed THEN [s1 EXCEPT !.stable = s1.pending] ELSE s1
    IN  IF elapsed /\ s2.stable # s2.lastStable THEN AfterNotify(s2) ELSE s2

\* MewtEngine.updateState on the window maps as the caller left them: the state and the
\* response text
LiveUpdate(imageMap, audioMap) ==
    LET hasVisual == EngineHasVisual(imageMap, image_lru)
        hasAudio  == HasCatSound(audioMap)
        next      == Debounced(state, DetermineState(hasVisual, hasAudio), now)
        vlmText   == GetText(lock, now)
        finalText == IF vlmText # NoText THEN vlmText ELSE STATE_MESSAGES[next.stable]
    IN  /\ state' = next
        /\ lastResponse' = IF finalText # NoText /\ finalText # lastResponse
                           THEN finalText ELSE lastResponse
        /\ UNCHANGED <<events, upd, heldRaw, heldSince, everHeld, nInputs, obsVars, lifeVars>>

\* MewtEngine.handleImageResult for classifications[0].categories = categories
LiveImageOf(categories) ==
    /\ categories # <<>> => Len(image_lru) < MaxLiveEntries
    /\ current_image' = AddResults(current_image, categories)
    /\ LiveUpdate(current_image', current_audio)
    /\ UNCHANGED <<cacheVars, now, current_audio, image_lru, is_now_focusing_cat, lastWindow,
                   flushInfo, wpVars, audVars, vlmVars>>

LiveImage == \E categories \in LiveImageInputs : LiveImageOf(categories)

\* an image result without categories: updateState runs on the window as it is
LiveFrame == LiveImageOf(<<>>)

\* MewtEngine.handleAudioResult
LiveAudio ==
    /\ \E categories \in AudioInputs : current_audio' = AddResults(current_audio, categories)
    /\ LiveUpdate(current_image, current_audio')
    /\ UNCHANGED <<cacheVars, now, current_image, image_lru, is_now_focusing_cat, lastWindow,
                   flushInfo, wpVars, audVars, vlmVars>>

\* the window timer is due
Due == now - lastWindow >= WINDOW_INTERVAL

\* ContextManager.processWindow, run by the window timer
LiveFlush ==
    /\ Due
    /\ image_lru' = UpdateImageLRU(image_lru, current_image, now)
    /\ is_now_focusing_cat' =
           CalculateTrustBasedFocus(image_lru', DetermineState(HasVisualCat(current_image),
                                                               HasCatSound(current_audio)))
    /\ current_image' = <<>>
    /\ current_audio' = <<>>
    /\ lastWindow' = now
    /\ UNCHANGED <<cacheVars, now, flushInfo, wpVars, audVars, engineVars, vlmVars>>

\* a stored time one window interval later
Back(t) == Max(t - WINDOW_INTERVAL, now - STATE_DEBOUNCE_MS)

\* a trust cache entry one window interval later
BackEntry(e) ==
    [key |-> <<e.key[1], Back(e.key[2])>>, value |-> [e.value EXCEPT !.timestamp = Back(@)]]

\* a window interval passes; a window timer that is due fires before the clock moves on
LiveClock ==
    /\ ~Due
    /\ lastWindow' = lastWindow - WINDOW_INTERVAL
    /\ state' = [state EXCEPT !.changeTime = Back(@)]
    /\ image_lru' = [i \in 1..Len(image_lru) |-> BackEntry(image_lru[i])]
    /\ UNCHANGED <<cacheVars, now, current_image, current_audio, is_now_focusing_cat, flushInfo,
                   wpVars, audVars, lastResponse, events, upd, heldRaw, heldSince, everHeld,
                   nInputs, obsVars, lifeVars, vlmVars>>

LiveNext == LiveImage \/ LiveAudio \/ LiveFlush \/ LiveClock

\* time passes and setInterval keeps the window timer firing; the image classifier keeps
\* delivering results, so that an updateState that would change the state is run; what the
\* results contain, and whether audio results arrive, is left open
SpecLive ==
    /\ Init
    /\ [][LiveNext]_vars
    /\ WF_vars(LiveClock)
    /\ WF_vars(LiveFlush)
    /\ WF_vars(LiveFrame)

\* the window holds an acoustic target above the threshold
Heard == HasCatSound(current_audio)

\* the window holds a visual class named as a cat
CatInWindow == HasVisualCatNoThreshold(current_image)

\* C33: if every window has received an acoustic target above the threshold by the time it
\* is flushed and no visual target is ever detected, the stable state eventually becomes
\* cat_audio, however the arrivals and the flushes interleave
C33_AudioCommits ==
    ([](Due => Heard) /\ []~CatInWindow) => <>(state.stable = "cat_audio")

\* C34: if from some point on no window holds a target-class visual category, and none holds
\* an acoustic target, then eventually the last ten entries of the trust cache hold no
\* isCat entry, the engine's hasVisual is false and the stable state is idle, for good
C34_TrustExpires ==
    <>[](~CatInWindow /\ ~Heard) =>
        <>[](/\ ~TrustsCat(image_lru, LRU_TRUST_COUNT)
             /\ ~EngineHasVisual(current_image, image_lru)
             /\ state.stable = "idle")


============================================================================
